---- MODULE Spec2Model ----
(***************************************************************************)
(* auto-request-review: the run orchestrator (src/index.js), the GitHub    *)
(* collaborators it calls (src/github.js) and the reviewer resolution      *)
(* engine (src/reviewer.js, described in spec.md section 4).               *)
(*                                                                         *)
(* JavaScript arrays are sequences, `undefined` options are the empty      *)
(* sequence, and objects used as ordered maps (groups, per_author, files)  *)
(* are sequences of <<key, value>> pairs in insertion order.               *)
(***************************************************************************)
EXTENDS Integers, Sequences, FiniteSets, TLC

VARIABLES
  pc,                            \* position of run() (the collaborator awaited next)
  outcome,                       \* "running", "returned" (resolved) or "threw" (rejected)
  thrown,                        \* the error run() rejected with
  raised,                        \* the error the failing collaborator raised
  calls,                         \* the collaborator calls made so far, in order
  config,                        \* index.js:26
  title, is_draft, author,       \* index.js:44
  changed_files,                 \* index.js:52
  requested_approved_reviewers,  \* index.js:55
  reviewers_based_on_files,      \* index.js:59
  reviewers_based_on_author,     \* index.js:62
  reviewers_from_same_teams,     \* index.js:65
  default_reviewers,             \* index.js:71
  reviewers,                     \* index.js:67
  aliases_missing_access,        \* index.js:86
  all_reviewers,                 \* index.js:96
  existing_comment,              \* index.js:118
  validate_all_reviewers_cache,  \* index.js:18
  \* one call of a function of github.js, followed step by step
  fn_pc,                         \* position inside the function
  requests,                      \* the octokit requests issued so far, in order
  fn_result,                     \* what the function returned
  arg_reviewers,                 \* the `reviewers` argument
  arg_comment,                   \* the `comment` argument of post_notification
  collaborator_responses,        \* github.js:182, the state of each promise
  settled_order,                 \* the requests settled so far, in completion order
  timeline_nodes,                \* github.js:152, the nodes of the timeline response
  page,                          \* github.js:81
  pull_request_files,            \* how many files the pull request changes
  files_collected,               \* github.js:78, changed_files of fetch_changed_files
  comment_list,                  \* github.js:261
  \* the process: module-level state that outlives a run, and its inputs
  validate_all_input,            \* index.js:20, the switch at the step of index.js:94
  github_cache,                  \* github.js:343-347
  action_inputs,                 \* what core.getInput and github.context hold now
  last_call,                     \* the last function of the cache section called
  pr_history                     \* the runs on one pull request, index.js:118-122

runVars == <<pc, outcome, thrown, raised, calls, config, title, is_draft, author,
          changed_files, requested_approved_reviewers, reviewers_based_on_files,
          reviewers_based_on_author, reviewers_from_same_teams, default_reviewers,
          reviewers, aliases_missing_access, all_reviewers, existing_comment,
          validate_all_reviewers_cache>>

githubVars == <<fn_pc, requests, fn_result, arg_reviewers, arg_comment,
                collaborator_responses, settled_order, timeline_nodes, page,
                pull_request_files, files_collected, comment_list>>

cacheVars == <<github_cache, action_inputs, last_call>>

processVars == <<cacheVars, validate_all_input, pr_history>>

vars == <<runVars, githubVars, processVars>>

-----------------------------------------------------------------------------
(* Bounds *)

\* largest options.number_of_reviewers drawn
MaxNumberOfReviewers == 2

\* longest `reviewers` argument of a call of github.js followed step by step
MaxReviewers == 3

\* most nodes in the timeline response of fetch_reviewers
MaxTimelineNodes == 3

\* most files a pull request changes (the paging test changes 222)
MaxPullRequestFiles == 222

\* most comments in the listing get_existing_comment receives
MaxComments == 3

-----------------------------------------------------------------------------
(* Array helpers *)

SeqToSet(s) == {s[i] : i \in DOMAIN s}

\* Array.prototype.includes
Includes(s, x) == \E i \in DOMAIN s : s[i] = x

NoDuplicates(s) == \A i, j \in DOMAIN s : s[i] = s[j] => i = j

\* [ ...new Set(s) ]: first occurrences, in order
RECURSIVE Uniq(_)
Uniq(s) ==
  IF s = <<>> THEN <<>>
  ELSE LET front == Uniq(SubSeq(s, 1, Len(s) - 1))
       IN IF Includes(front, s[Len(s)]) THEN front ELSE Append(front, s[Len(s)])

\* s.filter((x) => !excluded.includes(x))
Without(s, excluded) == SelectSeq(s, LAMBDA x : ~Includes(excluded, x))

\* ordered maps
HasKey(map, key) == \E i \in DOMAIN map : map[i][1] = key
Get(map, key) == map[CHOOSE i \in DOMAIN map : map[i][1] = key][2]

\* the subsequences of s with exactly k elements (order kept)
RECURSIVE SubSeqsOfLen(_, _)
SubSeqsOfLen(s, k) ==
  IF k = 0 THEN {<<>>}
  ELSE IF Len(s) < k THEN {}
  ELSE {<<Head(s)>> \o t : t \in SubSeqsOfLen(Tail(s), k - 1)}
       \cup SubSeqsOfLen(Tail(s), k)

\* String.prototype.includes on strings held as sequences of characters
IsSubstring(keyword, text) ==
  \E i \in 0..(Len(text) - Len(keyword)) :
    \A j \in 1..Len(keyword) : text[i + j] = keyword[j]

-----------------------------------------------------------------------------
(* The inputs drawn *)

Individuals == {"mario", "luigi", "peach"}
TeamSlugs == {"koopa"}

\* the team slugs of the calls of github.js followed step by step
CheckedTeamSlugs == {"koopa", "toads"}

\* 'team:'.concat(slug)
WithTeamPrefix(slug) ==
  CASE slug = "koopa" -> "team:koopa"
    [] slug = "toads" -> "team:toads"

\* alias.replace('team:', '') for an alias that starts with 'team:'
WithoutTeamPrefix(alias) ==
  CASE alias = "team:koopa" -> "koopa"
    [] alias = "team:toads" -> "toads"

\* alias.startsWith('team:')
StartsWithTeamPrefix(alias) ==
  \E slug \in TeamSlugs \cup CheckedTeamSlugs : alias = WithTeamPrefix(slug)

Authors == {"luigi", "peach"}

\* a title that holds the keyword in another case, and one that holds it as is
Titles == {<<"w", "i", "p">>, <<"a", " ", "W", "I", "P">>}

PullRequests == [title : Titles, is_draft : BOOLEAN, author : Authors]

ChangedFileLists ==
  {<<"README.md">>, <<"path/to/file.js">>, <<"path/to/file.rb", "README.md">>}

CurrentReviewerLists == {<<>>, <<"peach">>, <<"team:koopa", "mario">>}

DefaultsChoices == {<<>>, <<"peach", "bros">>}

GroupsChoices ==
  { << <<"bros", <<"mario", "luigi">> >> >>,
    << <<"bros", <<"mario", "luigi", "alike">> >>, <<"alike", <<"peach", "bros">> >> >> }

PerAuthorChoices ==
  { <<>>,
    << <<"bros", <<"bros", "team:koopa">> >> >>,
    << <<"peach", <<"mario">> >> >> }

FilesChoices ==
  { <<>>,
    << <<"**/*.js", <<"bros", "peach">> >>, <<"**/*.rb", <<"team:koopa">> >> >> }

KeywordsChoices == {<<>>, << <<"W", "I", "P">> >>}

NumberOfReviewersChoices == {<<>>} \cup {<<k>> : k \in 1..MaxNumberOfReviewers}

OptionsChoices ==
  [ignore_draft : BOOLEAN, ignored_keywords : KeywordsChoices,
   enable_group_assignment : BOOLEAN, number_of_reviewers : NumberOfReviewersChoices]

DefaultOptions ==
  [ignore_draft |-> FALSE, ignored_keywords |-> <<>>,
   enable_group_assignment |-> FALSE, number_of_reviewers |-> <<>>]

ReviewersChoices ==
  [defaults : DefaultsChoices, groups : GroupsChoices, per_author : PerAuthorChoices]

\* the configurations drawn: every reviewers/files section without options, and
\* every options section on the configurations that have defaults, file rules
\* and a per_author entry keyed by a group
Configs ==
  [reviewers : ReviewersChoices, files : FilesChoices, options : {DefaultOptions}]
  \cup
  {c \in [reviewers : ReviewersChoices, files : FilesChoices, options : OptionsChoices] :
     /\ c.files # <<>>
     /\ c.reviewers.defaults # <<>>
     /\ HasKey(c.reviewers.per_author, "bros")}

NoConfig ==
  [reviewers |-> [defaults |-> <<>>, groups |-> <<>>, per_author |-> <<>>],
   files |-> <<>>,
   options |-> DefaultOptions]

\* a comment of the pull request; present = FALSE is `undefined`, id 0 is no id
NoComment == [present |-> FALSE, id |-> 0, body |-> ""]
Comments == {[present |-> TRUE, id |-> 123, body |-> "test comment"]}

\* errors: status 0 is an error without a status
LOCAL_FILE_MISSING == "Local file missing"
NoError == [status |-> 0, message |-> ""]
NotFoundError == [status |-> 404, message |-> "Not Found"]
ServerError == [status |-> 500, message |-> "Server Error"]
LocalFileMissingError == [status |-> 0, message |-> LOCAL_FILE_MISSING]
YamlParseError == [status |-> 0, message |-> "YAMLParseError"]
RequestErrors == {NotFoundError, ServerError}

-----------------------------------------------------------------------------
(* Glob Matcher (spec.md 4.1): the patterns and paths drawn *)

Matches(pattern, path) ==
  \/ pattern = "**"
  \/ pattern = "**/*.js" /\ path \in {"path/to/file.js"}
  \/ pattern = "**/*.rb" /\ path \in {"path/to/file.rb"}

-----------------------------------------------------------------------------
(* Group Expander (spec.md 4.2) *)

\* expand(reference, groups): a group name expands to the expansion of its
\* members; a group name already being expanded is skipped
RECURSIVE expand(_, _, _), expand_each(_, _, _)
expand(reference, groups, visited) ==
  IF ~HasKey(groups, reference) THEN <<reference>>
  ELSE IF reference \in visited THEN <<>>
  ELSE expand_each(Get(groups, reference), groups, visited \cup {reference})

expand_each(references, groups, visited) ==
  IF references = <<>> THEN <<>>
  ELSE expand(Head(references), groups, visited)
       \o expand_each(Tail(references), groups, visited)

\* an expansion that takes every group name for one already being expanded
replace_groups_with_individuals_GroupsSkipped(references, cfg) ==
  Uniq(expand_each(references, cfg.reviewers.groups,
                   {cfg.reviewers.groups[i][1] : i \in DOMAIN cfg.reviewers.groups}))

replace_groups_with_individuals(references, cfg) ==
  Uniq(expand_each(references, cfg.reviewers.groups, {}))

-----------------------------------------------------------------------------
(* Gate Evaluator (spec.md 4.3) *)

should_request_review(pr_title, pr_is_draft, cfg) ==
  /\ ~(cfg.options.ignore_draft /\ pr_is_draft)
  /\ ~\E i \in DOMAIN cfg.options.ignored_keywords :
        IsSubstring(cfg.options.ignored_keywords[i], pr_title)

-----------------------------------------------------------------------------
(* Reviewer Resolution Engine (spec.md 4.4) *)

\* the targets of every file rule that some changed file matches, in rule order
RECURSIVE matching_targets(_, _)
matching_targets(files, changed) ==
  IF files = <<>> THEN <<>>
  ELSE (IF \E i \in DOMAIN changed : Matches(Head(files)[1], changed[i])
        THEN Head(files)[2] ELSE <<>>)
       \o matching_targets(Tail(files), changed)

identify_reviewers_by_changed_files(cfg, changed, excludes) ==
  Without(replace_groups_with_individuals(matching_targets(cfg.files, changed), cfg),
          excludes)

\* the targets of every per_author entry whose key is the author or a group
\* the author belongs to, in entry order
RECURSIVE author_targets(_, _, _)
author_targets(per_author, pr_author, cfg) ==
  IF per_author = <<>> THEN <<>>
  ELSE (IF \/ Head(per_author)[1] = pr_author
           \/ Includes(replace_groups_with_individuals(<<Head(per_author)[1]>>, cfg),
                       pr_author)
        THEN Head(per_author)[2] ELSE <<>>)
       \o author_targets(Tail(per_author), pr_author, cfg)

\* an author lookup that reads only the entry keyed by the author's own login
identify_reviewers_by_author_OwnKeyOnly(cfg, pr_author) ==
  Without(replace_groups_with_individuals(
            IF HasKey(cfg.reviewers.per_author, pr_author)
            THEN Get(cfg.reviewers.per_author, pr_author) ELSE <<>>, cfg),
          <<pr_author>>)

\* the author is not a reviewer of their own pull request
\* (test "requests review based on reviewers per author when a group is used
\* as an auther setting")
identify_reviewers_by_author(cfg, pr_author) ==
  Without(replace_groups_with_individuals(
            author_targets(cfg.reviewers.per_author, pr_author, cfg), cfg),
          <<pr_author>>)

\* the direct members of every group that directly contains the author
RECURSIVE members_of_groups_with(_, _)
members_of_groups_with(groups, pr_author) ==
  IF groups = <<>> THEN <<>>
  ELSE (IF Includes(Head(groups)[2], pr_author) THEN Head(groups)[2] ELSE <<>>)
       \o members_of_groups_with(Tail(groups), pr_author)

\* a group-member lookup that does not consult enable_group_assignment
fetch_other_group_members_Unconditional(cfg, pr_author) ==
  Without(Uniq(members_of_groups_with(cfg.reviewers.groups, pr_author)),
          <<pr_author>>)

fetch_other_group_members(cfg, pr_author) ==
  IF ~cfg.options.enable_group_assignment THEN <<>>
  ELSE Without(Uniq(members_of_groups_with(cfg.reviewers.groups, pr_author)),
               <<pr_author>>)

fetch_default_reviewers(cfg, excludes) ==
  Without(replace_groups_with_individuals(cfg.reviewers.defaults, cfg), excludes)

\* every value of an ordered map, concatenated
RECURSIVE all_values(_)
all_values(map) ==
  IF map = <<>> THEN <<>> ELSE Head(map)[2] \o all_values(Tail(map))

fetch_all_reviewers(cfg) ==
  replace_groups_with_individuals(
    cfg.reviewers.defaults \o all_values(cfg.reviewers.groups)
      \o all_values(cfg.files) \o all_values(cfg.reviewers.per_author),
    cfg)

-----------------------------------------------------------------------------
(* Eligibility Sampler (spec.md 4.5) *)

\* the results randomly_pick_reviewers can return
randomly_pick_reviewers(revs, cfg) ==
  IF cfg.options.number_of_reviewers = <<>> THEN {revs}
  ELSE IF cfg.options.number_of_reviewers[1] >= Len(revs) THEN {revs}
  ELSE SubSeqsOfLen(revs, cfg.options.number_of_reviewers[1])

-----------------------------------------------------------------------------
(* src/github.js *)

\* split_reviewers: <<individuals, teams without the prefix>>
split_reviewers(revs) ==
  << SelectSeq(revs, LAMBDA r : ~StartsWithTeamPrefix(r)),
     [i \in DOMAIN SelectSeq(revs, StartsWithTeamPrefix) |->
        WithoutTeamPrefix(SelectSeq(revs, StartsWithTeamPrefix)[i])] >>

\* filter_only_collaborators(reviewers) when the permission checks of the team
\* slugs in teams_ok and of the logins in individuals_ok succeed and all
\* others fail: <<filtered_reviewers, no_access_reviewers>>
filter_only_collaborators(revs, individuals_ok, teams_ok) ==
  LET individuals == split_reviewers(revs)[1]
      teams == split_reviewers(revs)[2]
      collaborators ==
        {WithTeamPrefix(teams[i]) : i \in {j \in DOMAIN teams : teams[j] \in teams_ok}}
        \cup {individuals[i] : i \in {j \in DOMAIN individuals :
                                        individuals[j] \in individuals_ok}}
  IN << SelectSeq(revs, LAMBDA r : r \in collaborators),
        SelectSeq(revs, LAMBDA r : r \notin collaborators) >>

\* fetch_config: the outcome, from the use_local input, the local file
\* ("missing", "empty", "content"), the error of the getContent request
\* (NoError when it succeeds), whether the content parses and what it holds
fetch_config(use_local, local_file, request_error, parses, content) ==
  IF ~use_local /\ request_error # NoError
    THEN [ok |-> FALSE, error |-> request_error, value |-> NoConfig]
  ELSE IF use_local /\ local_file # "content"
    THEN [ok |-> FALSE, error |-> LocalFileMissingError, value |-> NoConfig]
  ELSE IF ~parses
    THEN [ok |-> FALSE, error |-> YamlParseError, value |-> NoConfig]
  ELSE [ok |-> TRUE, error |-> NoError, value |-> content]

-----------------------------------------------------------------------------
(* src/index.js: the pieces of run() *)

LocalFiles == {"missing", "empty", "content"}

\* core.getInput('validate_all')
ValidateAllInputs == {"true", "false", ""}

\* get_validate_all_reviewers(): the value returned (and cached), from the
\* cache (<<>> is undefined) and the action's input
get_validate_all_reviewers(cache, input) ==
  IF cache # <<>> THEN cache[1] ELSE input = "true"

\* mutant: the LOCAL_FILE_MISSING test is left out
IsConfigNotFound_OnlyStatus(error) == error.status = 404

\* mutant: the catch block swallows every error
IsConfigNotFound_Any(error) == TRUE

\* the catch block of run(): the errors of fetch_config that end the run quietly
IsConfigNotFound(error) ==
  \/ error.status = 404
  \/ error.message = LOCAL_FILE_MISSING

\* mutant: the result of the gate is ignored
GateSuppresses_Never(pr_title, pr_is_draft, cfg) == FALSE

\* mutant: a draft is suppressed whatever options.ignore_draft says
GateSuppresses_AnyDraft(pr_title, pr_is_draft, cfg) ==
  pr_is_draft \/ ~should_request_review(pr_title, pr_is_draft, cfg)

\* !should_request_review({ title, is_draft, config })
GateSuppresses(pr_title, pr_is_draft, cfg) ==
  ~should_request_review(pr_title, pr_is_draft, cfg)

\* mutant: the author is not passed as an exclude
Excludes_Nobody(pr_author) == <<>>

\* excludes: [ author ]
Excludes(pr_author) == <<pr_author>>

\* [ ...new Set([ ...by_files, ...by_author, ...same_teams ]) ]
UnionOfMatches(by_files, by_author, same_teams) ==
  Uniq(by_files \o by_author \o same_teams)

\* mutant: the default reviewers are added whatever was matched
NoneMatched_Always(revs) == TRUE

\* if (reviewers.length === 0): the default reviewers are asked for
NoneMatched(revs) == Len(revs) = 0

\* mutant: the run goes on without default reviewers
NoDefaultReviewers_Never(defaults) == FALSE

\* if (default_reviewers.length === 0) return
NoDefaultReviewers(defaults) == Len(defaults) = 0

\* reviewers.push(...default_reviewers), inside if (reviewers.length === 0)
FallBackToDefaults(revs, defaults) ==
  IF NoneMatched(revs) THEN revs \o defaults ELSE revs

\* mutant: the current reviewers are not removed
WithoutCurrentReviewers_Kept(revs, current) == revs

\* reviewers.filter((reviewer) => !requested_approved_reviewers.includes(reviewer))
WithoutCurrentReviewers(revs, current) == Without(revs, current)

\* mutant: the aliases already validated are checked again
NotYetChecked_OnlyMissing(everyone, validated, missing) ==
  SelectSeq(everyone, LAMBDA r : ~Includes(missing, r))

\* mutant: the aliases already found missing access are checked again
NotYetChecked_OnlyValidated(everyone, validated, missing) ==
  SelectSeq(everyone, LAMBDA r : ~Includes(validated, r))

\* all_reviewers.filter((reviewer) => !reviewers.includes(reviewer)
\*                                    && !aliases_missing_access.includes(reviewer))
NotYetChecked(everyone, validated, missing) ==
  SelectSeq(everyone, LAMBDA r : ~Includes(validated, r) /\ ~Includes(missing, r))

\* mutant: the reviewers are not sampled
SampledReviewers_All(revs, cfg) == {revs}

\* randomly_pick_reviewers({ reviewers, config }): the possible results
SampledReviewers(revs, cfg) == randomly_pick_reviewers(revs, cfg)

\* mutant: assign_reviewers is called with an empty list too
ShouldAssign_Always(revs) == TRUE

\* if (reviewers.length > 0)
ShouldAssign(revs) == Len(revs) > 0

\* mutant: the result of the second access check replaces the first report
MergedMissingAccess_OnlyAdditional(missing, additional) == additional

\* [ ...aliases_missing_access, ...additional_missing_access ]
MergedMissingAccess(missing, additional) == missing \o additional

\* mutant: an existing comment alone does not trigger the notification
ShouldNotify_OnlyWhenMissing(missing, comment) == Len(missing) > 0

\* if (aliases_missing_access.length > 0 || existing_comment)
ShouldNotify(missing, comment) == Len(missing) > 0 \/ comment.present

-----------------------------------------------------------------------------
(* The call log *)

NoResult == << <<>>, <<>> >>

\* one collaborator call: its argument, whether it failed, the pair it
\* returned (filter_only_collaborators) and its comment argument
Call(fn, arg, failed, ret, comment) ==
  [fn |-> fn, arg |-> arg, failed |-> failed, ret |-> ret, comment |-> comment]

CallsOf(fn) == SelectSeq(calls, LAMBDA c : c.fn = fn)
Called(fn) == \E i \in DOMAIN calls : calls[i].fn = fn

prVars == <<title, is_draft, author>>
resolutionVars == <<reviewers_based_on_files, reviewers_based_on_author,
                    reviewers_from_same_teams, default_reviewers>>
errorVars == <<outcome, thrown, raised>>

\* mutant: a rejection of assign_reviewers is caught and the run goes on
Reject_AssignmentCaught(call, error) ==
  /\ calls' = Append(calls, call)
  /\ raised' = error
  /\ IF call.fn = "assign_reviewers"
       THEN pc' = "get_existing_comment" /\ UNCHANGED <<outcome, thrown>>
       ELSE pc' = "done" /\ outcome' = "threw" /\ thrown' = error

\* a collaborator other than fetch_config rejects: nothing catches it
Reject(call, error) ==
  /\ calls' = Append(calls, call)
  /\ raised' = error
  /\ thrown' = error
  /\ outcome' = "threw"
  /\ pc' = "done"

\* run() returns
Return ==
  /\ outcome' = "returned"
  /\ pc' = "done"
  /\ UNCHANGED <<thrown, raised>>

-----------------------------------------------------------------------------
(* run() *)

\* the values of the action's inputs and of github.context
ContextValues == {"pull request 18", "pull request 19"}
TokenValues == {"token a", "token b"}
ConfigPathValues == {".github/reviewers.yml", "config/reviewers.yml"}

ActionInputs ==
  [context : ContextValues, token : TokenValues, config : ConfigPathValues,
   use_local : {"true", "false"}]

\* every module-level variable of github.js:343-347 undefined (<<>>)
NothingCached ==
  [context_cache |-> <<>>, token_cache |-> <<>>, config_path_cache |-> <<>>,
   use_local_cache |-> <<>>, octokit_cache |-> <<>>]

NoCall == [fn |-> "", ret |-> <<>>]

\* a fresh process: nothing cached, nothing read
ProcessNotStarted ==
  /\ validate_all_input = <<>>
  /\ github_cache = NothingCached
  /\ action_inputs = [context |-> "pull request 18", token |-> "token a",
                      config |-> ".github/reviewers.yml", use_local |-> "false"]
  /\ last_call = NoCall
  /\ pr_history = <<>>

\* no function of github.js is followed step by step
GithubNotCalled ==
  /\ fn_pc = "idle"
  /\ requests = <<>>
  /\ fn_result = <<>>
  /\ arg_reviewers = <<>>
  /\ arg_comment = NoComment
  /\ collaborator_responses = <<>>
  /\ settled_order = <<>>
  /\ timeline_nodes = <<>>
  /\ page = 0
  /\ pull_request_files = 0
  /\ files_collected = <<>>
  /\ comment_list = <<>>

\* run() has not started
RunNotStarted ==
  /\ pc = "fetch_config"
  /\ outcome = "running"
  /\ thrown = NoError
  /\ raised = NoError
  /\ calls = <<>>
  /\ config = NoConfig
  /\ title = <<>>
  /\ is_draft = FALSE
  /\ author = ""
  /\ changed_files = <<>>
  /\ requested_approved_reviewers = <<>>
  /\ reviewers_based_on_files = <<>>
  /\ reviewers_based_on_author = <<>>
  /\ reviewers_from_same_teams = <<>>
  /\ default_reviewers = <<>>
  /\ reviewers = <<>>
  /\ aliases_missing_access = <<>>
  /\ all_reviewers = <<>>
  /\ existing_comment = NoComment
  /\ validate_all_reviewers_cache = <<>>

Init == RunNotStarted /\ GithubNotCalled /\ ProcessNotStarted

\* index.js:28-42
FetchConfig ==
  /\ pc = "fetch_config"
  /\ \E use_local \in BOOLEAN, local_file \in LocalFiles,
        request_error \in {NoError} \cup RequestErrors,
        parses \in BOOLEAN, content \in Configs :
       LET r == fetch_config(use_local, local_file, request_error, parses, content)
       IN /\ calls' = Append(calls, Call("fetch_config", <<>>, ~r.ok, NoResult, NoComment))
          /\ config' = r.value
          /\ raised' = r.error
          /\ IF r.ok
               THEN pc' = "get_pull_request" /\ UNCHANGED <<outcome, thrown>>
             ELSE IF IsConfigNotFound(r.error)
               THEN pc' = "done" /\ outcome' = "returned" /\ UNCHANGED thrown
             ELSE pc' = "done" /\ outcome' = "threw" /\ thrown' = r.error
  /\ UNCHANGED <<prVars, changed_files, requested_approved_reviewers, resolutionVars,
                 reviewers, aliases_missing_access, all_reviewers, existing_comment,
                 validate_all_reviewers_cache>>
  /\ UNCHANGED <<githubVars, processVars>>

\* index.js:44-49
GetPullRequest ==
  /\ pc = "get_pull_request"
  /\ \E pr \in PullRequests :
       /\ title' = pr.title
       /\ is_draft' = pr.is_draft
       /\ author' = pr.author
       /\ calls' = Append(calls, Call("get_pull_request", <<>>, FALSE, NoResult, NoComment))
       /\ IF GateSuppresses(pr.title, pr.is_draft, config)
            THEN Return
            ELSE pc' = "fetch_changed_files" /\ UNCHANGED errorVars
  /\ UNCHANGED <<config, changed_files, requested_approved_reviewers, resolutionVars,
                 reviewers, aliases_missing_access, all_reviewers, existing_comment,
                 validate_all_reviewers_cache>>
  /\ UNCHANGED <<githubVars, processVars>>

\* index.js:52
FetchChangedFiles ==
  /\ pc = "fetch_changed_files"
  /\ \/ \E files \in ChangedFileLists :
          /\ changed_files' = files
          /\ calls' = Append(calls, Call("fetch_changed_files", <<>>, FALSE, NoResult, NoComment))
          /\ pc' = "fetch_reviewers"
          /\ UNCHANGED errorVars
     \/ \E error \in RequestErrors :
          /\ Reject(Call("fetch_changed_files", <<>>, TRUE, NoResult, NoComment), error)
          /\ UNCHANGED changed_files
  /\ UNCHANGED <<config, prVars, requested_approved_reviewers, resolutionVars,
                 reviewers, aliases_missing_access, all_reviewers, existing_comment,
                 validate_all_reviewers_cache>>
  /\ UNCHANGED <<githubVars, processVars>>

\* index.js:55
FetchReviewers ==
  /\ pc = "fetch_reviewers"
  /\ \/ \E current \in CurrentReviewerLists :
          /\ requested_approved_reviewers' = current
          /\ calls' = Append(calls, Call("fetch_reviewers", <<>>, FALSE, NoResult, NoComment))
          /\ pc' = "identify"
          /\ UNCHANGED errorVars
     \/ \E error \in RequestErrors :
          /\ Reject(Call("fetch_reviewers", <<>>, TRUE, NoResult, NoComment), error)
          /\ UNCHANGED requested_approved_reviewers
  /\ UNCHANGED <<config, prVars, changed_files, resolutionVars,
                 reviewers, aliases_missing_access, all_reviewers, existing_comment,
                 validate_all_reviewers_cache>>
  /\ UNCHANGED <<githubVars, processVars>>

\* index.js:58-80
IdentifyReviewers ==
  /\ pc = "identify"
  /\ LET by_files == identify_reviewers_by_changed_files(config, changed_files,
                                                          Excludes(author))
         by_author == identify_reviewers_by_author(config, author)
         same_teams == fetch_other_group_members(config, author)
         matched == UnionOfMatches(by_files, by_author, same_teams)
         defaults == IF NoneMatched(matched)
                       THEN fetch_default_reviewers(config, Excludes(author))
                       ELSE <<>>
     IN /\ reviewers_based_on_files' = by_files
        /\ reviewers_based_on_author' = by_author
        /\ reviewers_from_same_teams' = same_teams
        /\ default_reviewers' = defaults
        /\ IF NoneMatched(matched) /\ NoDefaultReviewers(defaults)
             THEN reviewers' = matched /\ Return
             ELSE /\ reviewers' = FallBackToDefaults(matched, defaults)
                  /\ pc' = "exclude_current"
                  /\ UNCHANGED errorVars
  /\ UNCHANGED <<calls, config, prVars, changed_files, requested_approved_reviewers,
                 aliases_missing_access, all_reviewers, existing_comment,
                 validate_all_reviewers_cache>>
  /\ UNCHANGED <<githubVars, processVars>>

\* index.js:82-83
ExcludeCurrentReviewers ==
  /\ pc = "exclude_current"
  /\ reviewers' = WithoutCurrentReviewers(reviewers, requested_approved_reviewers)
  /\ pc' = "filter_only_collaborators"
  /\ UNCHANGED <<errorVars, calls, config, prVars, changed_files,
                 requested_approved_reviewers, resolutionVars, aliases_missing_access,
                 all_reviewers, existing_comment, validate_all_reviewers_cache>>
  /\ UNCHANGED <<githubVars, processVars>>

\* index.js:85-87
FilterOnlyCollaborators ==
  /\ pc = "filter_only_collaborators"
  /\ \/ \E individuals_ok \in SUBSET (Individuals \cap SeqToSet(reviewers)),
           teams_ok \in SUBSET {t \in TeamSlugs : Includes(reviewers, WithTeamPrefix(t))} :
          LET r == filter_only_collaborators(reviewers, individuals_ok, teams_ok)
          IN /\ reviewers' = r[1]
             /\ aliases_missing_access' = r[2]
             /\ calls' = Append(calls, Call("filter_only_collaborators", reviewers,
                                            FALSE, r, NoComment))
             /\ pc' = "validate_all"
             /\ UNCHANGED errorVars
     \/ \E error \in RequestErrors :
          /\ Reject(Call("filter_only_collaborators", reviewers, TRUE, NoResult,
                         NoComment), error)
          /\ UNCHANGED <<reviewers, aliases_missing_access>>
  /\ UNCHANGED <<config, prVars, changed_files, requested_approved_reviewers,
                 resolutionVars, all_reviewers, existing_comment,
                 validate_all_reviewers_cache>>
  /\ UNCHANGED <<githubVars, processVars>>

\* index.js:94-99
ReadValidateAll ==
  /\ pc = "validate_all"
  /\ \E input \in ValidateAllInputs :
       LET validate_all == get_validate_all_reviewers(validate_all_reviewers_cache, input)
       IN /\ validate_all_reviewers_cache' = <<validate_all>>
          /\ validate_all_input' =
               <<[current |-> input = "true",
                  read |-> validate_all_reviewers_cache = <<>>,
                  used |-> validate_all]>>
          /\ IF validate_all
               THEN /\ all_reviewers' = NotYetChecked(fetch_all_reviewers(config),
                                                      reviewers, aliases_missing_access)
                    /\ pc' = "validate_all_filter"
               ELSE /\ pc' = "pick"
                    /\ UNCHANGED all_reviewers
  /\ UNCHANGED <<errorVars, calls, config, prVars, changed_files,
                 requested_approved_reviewers, resolutionVars, reviewers,
                 aliases_missing_access, existing_comment>>
  /\ UNCHANGED <<githubVars, cacheVars, pr_history>>

\* index.js:101-103
FilterAllReviewers ==
  /\ pc = "validate_all_filter"
  /\ \/ \E individuals_ok \in SUBSET (Individuals \cap SeqToSet(all_reviewers)),
           teams_ok \in SUBSET {t \in TeamSlugs : Includes(all_reviewers, WithTeamPrefix(t))} :
          LET r == filter_only_collaborators(all_reviewers, individuals_ok, teams_ok)
          IN /\ aliases_missing_access' = MergedMissingAccess(aliases_missing_access, r[2])
             /\ calls' = Append(calls, Call("filter_only_collaborators", all_reviewers,
                                            FALSE, r, NoComment))
             /\ pc' = "pick"
             /\ UNCHANGED errorVars
     \/ \E error \in RequestErrors :
          /\ Reject(Call("filter_only_collaborators", all_reviewers, TRUE, NoResult,
                         NoComment), error)
          /\ UNCHANGED aliases_missing_access
  /\ UNCHANGED <<config, prVars, changed_files, requested_approved_reviewers,
                 resolutionVars, reviewers, all_reviewers, existing_comment,
                 validate_all_reviewers_cache>>
  /\ UNCHANGED <<githubVars, processVars>>

\* index.js:106-114
RandomlyPickReviewers ==
  /\ pc = "pick"
  /\ \E picked \in SampledReviewers(reviewers, config) :
       /\ reviewers' = picked
       /\ pc' = IF ShouldAssign(picked) THEN "assign_reviewers" ELSE "get_existing_comment"
  /\ UNCHANGED <<errorVars, calls, config, prVars, changed_files,
                 requested_approved_reviewers, resolutionVars, aliases_missing_access,
                 all_reviewers, existing_comment, validate_all_reviewers_cache>>
  /\ UNCHANGED <<githubVars, processVars>>

\* index.js:111
AssignReviewers ==
  /\ pc = "assign_reviewers"
  /\ \/ /\ calls' = Append(calls, Call("assign_reviewers", reviewers, FALSE, NoResult,
                                       NoComment))
        /\ pc' = "get_existing_comment"
        /\ UNCHANGED errorVars
     \/ \E error \in RequestErrors :
          Reject(Call("assign_reviewers", reviewers, TRUE, NoResult, NoComment), error)
  /\ UNCHANGED <<config, prVars, changed_files, requested_approved_reviewers,
                 resolutionVars, reviewers, aliases_missing_access, all_reviewers,
                 existing_comment, validate_all_reviewers_cache>>
  /\ UNCHANGED <<githubVars, processVars>>

\* index.js:118-119
GetExistingComment ==
  /\ pc = "get_existing_comment"
  /\ \/ \E comment \in Comments \cup {NoComment} :
          /\ existing_comment' = comment
          /\ calls' = Append(calls, Call("get_existing_comment", <<>>, FALSE, NoResult,
                                         NoComment))
          /\ IF ShouldNotify(aliases_missing_access, comment)
               THEN pc' = "post_notification" /\ UNCHANGED errorVars
               ELSE Return
     \/ \E error \in RequestErrors :
          /\ Reject(Call("get_existing_comment", <<>>, TRUE, NoResult, NoComment), error)
          /\ UNCHANGED existing_comment
  /\ UNCHANGED <<config, prVars, changed_files, requested_approved_reviewers,
                 resolutionVars, reviewers, aliases_missing_access, all_reviewers,
                 validate_all_reviewers_cache>>
  /\ UNCHANGED <<githubVars, processVars>>

\* index.js:120-122
PostNotification ==
  /\ pc = "post_notification"
  /\ \/ /\ calls' = Append(calls, Call("post_notification", aliases_missing_access,
                                       FALSE, NoResult, existing_comment))
        /\ Return
     \/ \E error \in RequestErrors :
          Reject(Call("post_notification", aliases_missing_access, TRUE, NoResult,
                      existing_comment), error)
  /\ UNCHANGED <<config, prVars, changed_files, requested_approved_reviewers,
                 resolutionVars, reviewers, aliases_missing_access, all_reviewers,
                 existing_comment, validate_all_reviewers_cache>>
  /\ UNCHANGED <<githubVars, processVars>>

Next ==
  \/ FetchConfig
  \/ GetPullRequest
  \/ FetchChangedFiles
  \/ FetchReviewers
  \/ IdentifyReviewers
  \/ ExcludeCurrentReviewers
  \/ FilterOnlyCollaborators
  \/ ReadValidateAll
  \/ FilterAllReviewers
  \/ RandomlyPickReviewers
  \/ AssignReviewers
  \/ GetExistingComment
  \/ PostNotification

Spec == Init /\ [][Next]_vars

-----------------------------------------------------------------------------
(* Properties of run() *)

FirstCall(fn) == CallsOf(fn)[1]

AfterGateCollaborators ==
  {"fetch_changed_files", "fetch_reviewers", "filter_only_collaborators",
   "assign_reviewers", "get_existing_comment", "post_notification"}

\* the gate evaluator has returned false for the pull request of this run
GateReturnedFalse ==
  /\ Called("get_pull_request")
  /\ \/ config.options.ignore_draft /\ is_draft
     \/ \E i \in DOMAIN config.options.ignored_keywords :
          IsSubstring(config.options.ignored_keywords[i], title)

\* C1: when the gate evaluator returns false (a draft with ignore_draft, or a
\* title that contains an ignored keyword), run() has returned without an
\* error and none of fetch_changed_files, fetch_reviewers,
\* filter_only_collaborators, assign_reviewers, get_existing_comment and
\* post_notification is ever called.
C1_GateSuppressedRunIsSilent ==
  GateReturnedFalse =>
    /\ pc = "done"
    /\ outcome = "returned"
    /\ \A fn \in AfterGateCollaborators : ~Called(fn)

C1_Witness ==
  /\ GateReturnedFalse
  /\ is_draft /\ config.options.ignore_draft
  /\ outcome = "returned"

\* fetch_config failed with one of the two configuration-not-found conditions
ConfigNotFound ==
  /\ calls # <<>>
  /\ calls[1].fn = "fetch_config"
  /\ calls[1].failed
  /\ (raised.status = 404 \/ raised.message = LOCAL_FILE_MISSING)

\* C2: when fetch_config fails with status 404 or with the LOCAL_FILE_MISSING
\* message, run() returns (no error reaches the caller) and no other
\* collaborator is called.
C2_ConfigNotFoundIsSoftExit ==
  ConfigNotFound =>
    /\ pc = "done"
    /\ outcome = "returned"
    /\ thrown = NoError
    /\ Len(calls) = 1

C2_Witness ==
  /\ ConfigNotFound
  /\ raised.message = LOCAL_FILE_MISSING
  /\ outcome = "returned"

\* C3: a failed collaborator call, other than fetch_config failing with one of
\* the two configuration-not-found conditions, is the last call of the run, and
\* run() rejects with the very error the collaborator raised.
C3_OtherFailuresPropagate ==
  \A i \in DOMAIN calls :
    (calls[i].failed /\ ~ConfigNotFound) =>
      /\ i = Len(calls)
      /\ pc = "done"
      /\ outcome = "threw"
      /\ thrown = raised
      /\ raised # NoError

C3_Witness ==
  /\ Called("assign_reviewers")
  /\ calls[Len(calls)].fn = "assign_reviewers"
  /\ calls[Len(calls)].failed
  /\ outcome = "threw"
  /\ thrown = NotFoundError

\* the candidate set of index.js:82, from the results of the resolution functions
CandidatesOfRun ==
  LET matched == Uniq(reviewers_based_on_files \o reviewers_based_on_author
                        \o reviewers_from_same_teams)
  IN IF matched = <<>> THEN default_reviewers ELSE matched

\* C4: every alias passed to the first access check is absent from the current
\* reviewers fetch_reviewers returned, and so is every alias passed to
\* assign_reviewers (the access check returns a part of its input).
C4_CurrentReviewersNotAskedAgain ==
  /\ Called("filter_only_collaborators") =>
       \A a \in SeqToSet(FirstCall("filter_only_collaborators").arg) :
         ~Includes(requested_approved_reviewers, a)
  /\ \A i \in DOMAIN calls :
       calls[i].fn = "assign_reviewers" =>
         \A a \in SeqToSet(calls[i].arg) : ~Includes(requested_approved_reviewers, a)

C4_Witness ==
  /\ Called("assign_reviewers")
  /\ requested_approved_reviewers = <<"peach">>
  /\ Includes(CandidatesOfRun, "peach")
  /\ FirstCall("filter_only_collaborators").arg = <<"mario">>

\* C5: the file-based result and the default reviewers never hold the author,
\* so the author is among the aliases passed to the first access check only if
\* the author-based or the group-member result holds it.
C5_AuthorNotAmongFileOrDefaultCandidates ==
  /\ ~Includes(reviewers_based_on_files, author)
  /\ ~Includes(default_reviewers, author)
  /\ Called("filter_only_collaborators") =>
       (Includes(FirstCall("filter_only_collaborators").arg, author) =>
          \/ Includes(reviewers_based_on_author, author)
          \/ Includes(reviewers_from_same_teams, author))

\* files {'**/*.js': [bros, peach]}, bros = [mario, luigi], author luigi
C5_Witness ==
  /\ author = "luigi"
  /\ changed_files = <<"path/to/file.js">>
  /\ config.reviewers.per_author = <<>>
  /\ Get(config.reviewers.groups, "bros") = <<"mario", "luigi">>
  /\ Called("filter_only_collaborators")
  /\ FirstCall("filter_only_collaborators").arg = <<"mario", "peach">>

\* the run is past the decision of index.js:109
PastAssignment ==
  \/ Called("assign_reviewers")
  \/ pc \in {"get_existing_comment", "post_notification"}
  \/ Called("get_existing_comment")

\* C6: assign_reviewers is called at most once in a run, it is called exactly
\* when the sampled set is not empty, and its argument is a part of what the
\* first access check validated.
C6_AssignOnceAndOnlyFirstPassValidated ==
  /\ Len(CallsOf("assign_reviewers")) <= 1
  /\ PastAssignment => (Called("assign_reviewers") <=> reviewers # <<>>)
  /\ Called("assign_reviewers") =>
       SeqToSet(FirstCall("assign_reviewers").arg)
         \subseteq SeqToSet(FirstCall("filter_only_collaborators").ret[1])

\* the second pass validated somebody, who is not assigned
C6_Witness ==
  /\ Called("assign_reviewers")
  /\ Len(CallsOf("filter_only_collaborators")) = 2
  /\ \E a \in SeqToSet(CallsOf("filter_only_collaborators")[2].ret[1]) :
       ~Includes(FirstCall("assign_reviewers").arg, a)

\* C7: with number_of_reviewers = k and more than k validated reviewers,
\* assign_reviewers is called with exactly k distinct validated reviewers; with
\* k unset or not below the number of validated reviewers it is called with
\* the validated reviewers unchanged.
C7_AssignedIsSampleOfValidated ==
  LET k == config.options.number_of_reviewers
      validated == FirstCall("filter_only_collaborators").ret[1]
  IN /\ (PastAssignment /\ k # <<>> /\ Len(validated) > k[1]) =>
          /\ Called("assign_reviewers")
          /\ Len(FirstCall("assign_reviewers").arg) = k[1]
          /\ NoDuplicates(FirstCall("assign_reviewers").arg)
          /\ SeqToSet(FirstCall("assign_reviewers").arg) \subseteq SeqToSet(validated)
     /\ (Called("assign_reviewers") /\ (k = <<>> \/ k[1] >= Len(validated))) =>
          /\ SeqToSet(FirstCall("assign_reviewers").arg) = SeqToSet(validated)
          /\ Len(FirstCall("assign_reviewers").arg) = Len(validated)

C7_Witness ==
  /\ Called("assign_reviewers")
  /\ config.options.number_of_reviewers = <<2>>
  /\ Len(FirstCall("filter_only_collaborators").ret[1]) = 3
  /\ Len(FirstCall("assign_reviewers").arg) = 2

\* C8: the candidate set is the default reviewers (expanded, without the
\* author) when the union of the file-based, author-based and group-member
\* results is empty, and that union itself, with nothing added, otherwise.
C8_DefaultsOnlyWhenNothingMatched ==
  pc = "exclude_current" =>
    LET matched == Uniq(reviewers_based_on_files \o reviewers_based_on_author
                          \o reviewers_from_same_teams)
    IN /\ matched = <<>> =>
            reviewers = fetch_default_reviewers(config, <<author>>)
       /\ matched # <<>> => reviewers = matched

C8_Witness ==
  /\ pc = "exclude_current"
  /\ reviewers_based_on_files = <<>>
  /\ reviewers_based_on_author = <<>>
  /\ reviewers_from_same_teams = <<>>
  /\ reviewers = <<"peach", "mario">>
  /\ author = "luigi"

\* the resolution functions of index.js:58-80 have run
Identified ==
  /\ \E i \in DOMAIN calls : calls[i].fn = "fetch_reviewers" /\ ~calls[i].failed
  /\ pc # "identify"

\* C9: when the file-based, author-based and group-member results are all
\* empty and the configuration has no default reviewers, run() returns without
\* calling filter_only_collaborators, assign_reviewers, get_existing_comment or
\* post_notification.
C9_NothingMatchedNoDefaultsIsSilent ==
  ( /\ Identified
    /\ identify_reviewers_by_changed_files(config, changed_files, <<author>>) = <<>>
    /\ identify_reviewers_by_author(config, author) = <<>>
    /\ fetch_other_group_members(config, author) = <<>>
    /\ config.reviewers.defaults = <<>> ) =>
      /\ pc = "done"
      /\ outcome = "returned"
      /\ \A fn \in {"filter_only_collaborators", "assign_reviewers",
                    "get_existing_comment", "post_notification"} : ~Called(fn)

C9_Witness ==
  /\ Identified
  /\ config.files # <<>>
  /\ changed_files = <<"README.md">>
  /\ UnionOfMatches(reviewers_based_on_files, reviewers_based_on_author,
                    reviewers_from_same_teams) = <<>>
  /\ config.reviewers.defaults = <<>>
  /\ outcome = "returned"

\* every reference the configuration mentions, closed under group membership
RECURSIVE ReachableReferences(_, _)
ReachableReferences(refs, groups) ==
  LET more == refs \cup UNION {SeqToSet(Get(groups, g)) : g \in {r \in refs : HasKey(groups, r)}}
  IN IF more = refs THEN refs ELSE ReachableReferences(more, groups)

\* the alias universe of a configuration: the aliases that are not group names
\* among the defaults, the group members, the file-rule targets and the
\* per_author targets, groups expanded
AliasUniverse(cfg) ==
  LET mentioned ==
        SeqToSet(cfg.reviewers.defaults)
        \cup UNION {SeqToSet(cfg.reviewers.groups[i][2]) : i \in DOMAIN cfg.reviewers.groups}
        \cup UNION {SeqToSet(cfg.files[i][2]) : i \in DOMAIN cfg.files}
        \cup UNION {SeqToSet(cfg.reviewers.per_author[i][2]) :
                      i \in DOMAIN cfg.reviewers.per_author}
  IN {r \in ReachableReferences(mentioned, cfg.reviewers.groups) :
        ~HasKey(cfg.reviewers.groups, r)}

\* C10: in validate-all mode the second access check is made, with exactly the
\* alias universe of the configuration minus the aliases the first access
\* check returned as validated or as missing access.
C10_SecondCheckCoversTheRestOfTheUniverse ==
  LET checks == CallsOf("filter_only_collaborators")
  IN /\ (validate_all_reviewers_cache = <<TRUE>> /\ pc # "validate_all_filter") =>
          Len(checks) = 2
     /\ validate_all_reviewers_cache = <<FALSE>> => Len(checks) <= 1
     /\ Len(checks) = 2 =>
          /\ validate_all_reviewers_cache = <<TRUE>>
          /\ NoDuplicates(checks[2].arg)
          /\ SeqToSet(checks[2].arg) =
               AliasUniverse(config)
                 \ (SeqToSet(checks[1].ret[1]) \cup SeqToSet(checks[1].ret[2]))

\* the author and the target of a file rule no changed file matches are checked
C10_Witness ==
  /\ Len(CallsOf("filter_only_collaborators")) = 2
  /\ author = "luigi"
  /\ changed_files = <<"path/to/file.js">>
  /\ FirstCall("filter_only_collaborators").ret[2] # <<>>
  /\ Includes(CallsOf("filter_only_collaborators")[2].arg, "luigi")
  /\ Includes(CallsOf("filter_only_collaborators")[2].arg, "team:koopa")

\* C11: the missing-access report handed to post_notification is exactly the
\* missing list of the first access check when validate-all mode is off, and
\* the missing list of the first check followed by the one of the second
\* check when it is on.
C11_ReportIsFirstMissingThenSecondMissing ==
  \A i \in DOMAIN calls :
    calls[i].fn = "post_notification" =>
      LET checks == CallsOf("filter_only_collaborators")
      IN IF validate_all_reviewers_cache = <<TRUE>>
           THEN /\ Len(checks) = 2
                /\ calls[i].arg = checks[1].ret[2] \o checks[2].ret[2]
           ELSE /\ Len(checks) = 1
                /\ calls[i].arg = checks[1].ret[2]

\* both access checks found aliases without access and the report was posted
C11_Witness ==
  /\ Called("post_notification")
  /\ validate_all_reviewers_cache = <<TRUE>>
  /\ Len(CallsOf("filter_only_collaborators")) = 2
  /\ FirstCall("filter_only_collaborators").ret[2] # <<>>
  /\ CallsOf("filter_only_collaborators")[2].ret[2] # <<>>

\* the report is not empty or an existing comment was found (index.js:119)
ReportOrCommentFound == Len(aliases_missing_access) > 0 \/ existing_comment.present

\* post_notification is called exactly once, with the report and the comment
NotifiedOnce ==
  /\ Len(CallsOf("post_notification")) = 1
  /\ FirstCall("post_notification").arg = aliases_missing_access
  /\ FirstCall("post_notification").comment = existing_comment

\* no access check and no assignment of the run failed
ValidationAndAssignmentSucceeded ==
  \A i \in DOMAIN calls :
    calls[i].fn \in {"filter_only_collaborators", "assign_reviewers"} =>
      ~calls[i].failed

\* C12 as stated: in every run that reaches access validation (and whose
\* access checks do not fail), get_existing_comment is called exactly once, and post_notification is
\* called exactly once with the report and the existing comment exactly when
\* the report is not empty or an existing comment was found, and is not
\* called otherwise.
C12_AsStated ==
  (pc = "done" /\ Called("filter_only_collaborators")
     /\ \A i \in DOMAIN calls :
          calls[i].fn = "filter_only_collaborators" => ~calls[i].failed) =>
    /\ Len(CallsOf("get_existing_comment")) = 1
    /\ IF ReportOrCommentFound
         THEN NotifiedOnce
         ELSE ~Called("post_notification")

\* C12, amended: in every run in which the access checks and the assignment
\* do not fail, get_existing_comment is called exactly once (also when nothing
\* is assigned); when it succeeds, post_notification is called exactly once
\* with the report and the existing comment exactly when the report is not
\* empty or an existing comment was found, and is not called otherwise. No
\* run calls either of them twice, and none calls post_notification without
\* a successful get_existing_comment before it.
C12_CommentFetchedOnceNotifiedWhenNeeded ==
  /\ Len(CallsOf("get_existing_comment")) <= 1
  /\ Len(CallsOf("post_notification")) <= 1
  /\ Called("post_notification") =>
       /\ Called("get_existing_comment")
       /\ ~FirstCall("get_existing_comment").failed
  /\ (pc = "done" /\ Called("filter_only_collaborators")
        /\ ValidationAndAssignmentSucceeded) =>
       /\ Len(CallsOf("get_existing_comment")) = 1
       /\ ~FirstCall("get_existing_comment").failed =>
            IF ReportOrCommentFound
              THEN NotifiedOnce
              ELSE ~Called("post_notification")

\* nothing was assigned, nobody misses access, and the comment found alone
\* triggered the notification
C12_Witness ==
  /\ pc = "done"
  /\ Called("filter_only_collaborators")
  /\ ~Called("assign_reviewers")
  /\ aliases_missing_access = <<>>
  /\ existing_comment.present
  /\ Len(CallsOf("get_existing_comment")) = 1
  /\ Len(CallsOf("post_notification")) = 1

-----------------------------------------------------------------------------
(* github.js: filter_only_collaborators, one call followed step by step *)

CheckedAliases == {"mario", "luigi", "team:koopa", "team:toads"}

\* the `reviewers` arguments drawn: run() passes arrays without duplicates
\* (index.js:67 builds a Set, index.js:83 and index.js:99 only filter)
ReviewerArguments ==
  {revs \in UNION {[1..n -> CheckedAliases] : n \in 0..MaxReviewers} :
     NoDuplicates(revs)}

\* the requests of github.js:183-207 in the order they are issued: one team
\* check per team of split_reviewers, then one collaborator check per individual
ChecksToIssue(revs) ==
  [i \in DOMAIN split_reviewers(revs)[2] |->
     [api |-> "teams.checkPermissionsForRepoInOrg",
      arg |-> split_reviewers(revs)[2][i]]]
  \o [i \in DOMAIN split_reviewers(revs)[1] |->
        [api |-> "repos.checkCollaborator", arg |-> split_reviewers(revs)[1][i]]]

\* the value the .then handler of a request returns (github.js:192, 203)
ValueOnSuccess(request) ==
  IF request.api = "teams.checkPermissionsForRepoInOrg"
    THEN WithTeamPrefix(request.arg)
    ELSE request.arg

PendingResponse == [state |-> "pending", check |-> "pending", value |-> <<>>]

\* the promise pushed for a request once the request settles: the .then
\* handler yields the alias, the .catch handler yields core.error's undefined
SettledResponse(request, succeeded) ==
  IF succeeded
    THEN [state |-> "fulfilled", check |-> "succeeded",
          value |-> <<ValueOnSuccess(request)>>]
    ELSE [state |-> "fulfilled", check |-> "failed", value |-> <<>>]

\* mutant: Promise.race in place of Promise.allSettled
AllSettled_AnySettled(responses) ==
  responses = <<>> \/ \E i \in DOMAIN responses : responses[i].state # "pending"

\* Promise.allSettled(collaborator_responses) resolves
AllSettled(responses) ==
  \A i \in DOMAIN responses : responses[i].state # "pending"

\* results.forEach: if (result?.value) collaborators.push(result?.value)
RECURSIVE CollectedCollaborators(_)
CollectedCollaborators(responses) ==
  IF responses = <<>> THEN <<>>
  ELSE CollectedCollaborators(SubSeq(responses, 1, Len(responses) - 1))
       \o responses[Len(responses)].value

\* mutant: the collaborators are returned in the order of their requests
FilteredReviewers_InRequestOrder(revs, collaborators) == collaborators

\* reviewers.filter((reviewer) => collaborators.includes(reviewer))
FilteredReviewers(revs, collaborators) ==
  SelectSeq(revs, LAMBDA r : Includes(collaborators, r))

\* reviewers.filter((reviewer) => !collaborators.includes(reviewer))
NoAccessReviewers(revs, collaborators) ==
  SelectSeq(revs, LAMBDA r : ~Includes(collaborators, r))

otherGithubVars == <<arg_comment, timeline_nodes, page, pull_request_files,
                     files_collected, comment_list, processVars>>

InitFilter ==
  /\ RunNotStarted
  /\ ProcessNotStarted
  /\ fn_pc = "issuing"
  /\ requests = <<>>
  /\ fn_result = <<>>
  /\ arg_reviewers \in ReviewerArguments
  /\ arg_comment = NoComment
  /\ collaborator_responses = <<>>
  /\ settled_order = <<>>
  /\ timeline_nodes = <<>>
  /\ page = 0
  /\ pull_request_files = 0
  /\ files_collected = <<>>
  /\ comment_list = <<>>

\* github.js:183-207: the next request is issued and its promise is pushed;
\* both loops run without awaiting anything
IssueCheck ==
  /\ fn_pc = "issuing"
  /\ Len(requests) < Len(ChecksToIssue(arg_reviewers))
  /\ requests' = Append(requests, ChecksToIssue(arg_reviewers)[Len(requests) + 1])
  /\ collaborator_responses' = Append(collaborator_responses, PendingResponse)
  /\ UNCHANGED <<fn_pc, fn_result, arg_reviewers, settled_order, otherGithubVars, runVars>>

\* github.js:211: the function awaits Promise.allSettled
AwaitResponses ==
  /\ fn_pc = "issuing"
  /\ Len(requests) = Len(ChecksToIssue(arg_reviewers))
  /\ fn_pc' = "awaiting"
  /\ UNCHANGED <<requests, fn_result, arg_reviewers, collaborator_responses,
                 settled_order, otherGithubVars, runVars>>

\* a pending request settles, in any order, with success or with an error;
\* the handlers run only once the function has yielded at its await
SettleCheck ==
  /\ fn_pc = "awaiting"
  /\ \E i \in DOMAIN collaborator_responses, succeeded \in BOOLEAN :
       /\ collaborator_responses[i].state = "pending"
       /\ collaborator_responses' =
            [collaborator_responses EXCEPT ![i] = SettledResponse(requests[i], succeeded)]
       /\ settled_order' = Append(settled_order, i)
  /\ UNCHANGED <<fn_pc, requests, fn_result, arg_reviewers, otherGithubVars, runVars>>

\* github.js:211-225
ReturnFiltered ==
  /\ fn_pc = "awaiting"
  /\ AllSettled(collaborator_responses)
  /\ LET collaborators == CollectedCollaborators(collaborator_responses)
     IN fn_result' = << FilteredReviewers(arg_reviewers, collaborators),
                        NoAccessReviewers(arg_reviewers, collaborators) >>
  /\ fn_pc' = "returned"
  /\ UNCHANGED <<requests, arg_reviewers, collaborator_responses, settled_order,
                 otherGithubVars, runVars>>

NextFilter ==
  \/ IssueCheck
  \/ AwaitResponses
  \/ SettleCheck
  \/ ReturnFiltered

SpecFilter == InitFilter /\ [][NextFilter]_vars

\* the requests issued for the alias at position i of the argument
ChecksOf(i) ==
  {k \in DOMAIN requests :
     IF StartsWithTeamPrefix(arg_reviewers[i])
       THEN /\ requests[k].api = "teams.checkPermissionsForRepoInOrg"
            /\ WithTeamPrefix(requests[k].arg) = arg_reviewers[i]
       ELSE /\ requests[k].api = "repos.checkCollaborator"
            /\ requests[k].arg = arg_reviewers[i]}

\* the check of the alias at position i of the argument succeeded
CheckSucceeded(i) ==
  \E k \in ChecksOf(i) : collaborator_responses[k].check = "succeeded"

\* the aliases of the argument whose check has the given outcome, in input order
RECURSIVE AliasesWithCheck(_, _)
AliasesWithCheck(n, succeeded) ==
  IF n = 0 THEN <<>>
  ELSE AliasesWithCheck(n - 1, succeeded)
       \o (IF CheckSucceeded(n) = succeeded THEN <<arg_reviewers[n]>> ELSE <<>>)

\* C13: filter_only_collaborators issues exactly one permission check per
\* input alias (a team check, with the prefix removed, for an alias that
\* starts with team:, a collaborator check for any other) and returns a pair
\* that partitions its input: the validated list holds exactly the aliases
\* whose check succeeded, the missing list exactly those whose check failed,
\* each in the order of the input. It is the pair the run model uses.
C13_OneCheckPerAliasAndPartition ==
  fn_pc = "returned" =>
    /\ Len(requests) = Len(arg_reviewers)
    /\ \A i \in DOMAIN arg_reviewers : Cardinality(ChecksOf(i)) = 1
    /\ fn_result[1] = AliasesWithCheck(Len(arg_reviewers), TRUE)
    /\ fn_result[2] = AliasesWithCheck(Len(arg_reviewers), FALSE)
    /\ \A i \in DOMAIN arg_reviewers :
         Includes(fn_result[1], arg_reviewers[i]) # Includes(fn_result[2], arg_reviewers[i])
    /\ Len(fn_result[1]) + Len(fn_result[2]) = Len(arg_reviewers)
    /\ fn_result =
         filter_only_collaborators(
           arg_reviewers,
           {arg_reviewers[i] : i \in {j \in DOMAIN arg_reviewers :
              ~StartsWithTeamPrefix(arg_reviewers[j]) /\ CheckSucceeded(j)}},
           {WithoutTeamPrefix(arg_reviewers[i]) : i \in {j \in DOMAIN arg_reviewers :
              StartsWithTeamPrefix(arg_reviewers[j]) /\ CheckSucceeded(j)}})

\* an individual listed before a team, both validated, and one alias missing
C13_Witness ==
  /\ fn_pc = "returned"
  /\ arg_reviewers = <<"mario", "team:koopa", "luigi">>
  /\ fn_result = << <<"mario", "team:koopa">>, <<"luigi">> >>

\* C14: all the per-alias checks are issued before any result is taken and the
\* function returns only after every check has settled; for every subset of
\* failing checks and every completion order the function returns (it never
\* stops before that), a failed check only moves its own alias to the missing
\* list, and the pair returned depends on the outcomes alone, not on the
\* order of completion.
C14_FanOutFanIn ==
  /\ settled_order # <<>> => Len(requests) = Len(arg_reviewers)
  /\ fn_pc = "returned" \/ ENABLED NextFilter
  /\ fn_pc = "returned" =>
       /\ Len(settled_order) = Len(requests)
       /\ \A k \in DOMAIN collaborator_responses :
            collaborator_responses[k].state # "pending"
       /\ \A i \in DOMAIN arg_reviewers :
            /\ CheckSucceeded(i) <=> Includes(fn_result[1], arg_reviewers[i])
            /\ ~CheckSucceeded(i) <=> Includes(fn_result[2], arg_reviewers[i])
       /\ fn_result = << AliasesWithCheck(Len(arg_reviewers), TRUE),
                         AliasesWithCheck(Len(arg_reviewers), FALSE) >>

\* the checks complete in the reverse of the order they were issued in and
\* the one in the middle fails
C14_Witness ==
  /\ fn_pc = "returned"
  /\ arg_reviewers = <<"mario", "team:koopa", "luigi">>
  /\ settled_order = <<3, 2, 1>>
  /\ collaborator_responses[2].check = "failed"
  /\ fn_result = << <<"team:koopa", "luigi">>, <<"mario">> >>

-----------------------------------------------------------------------------
(* github.js: the comment of the action and post_notification *)

\* A comment body is the sequence of its lines; a line is its fixed text
\* (kind) and the alias or key spliced into it.
Line(kind, text) == [kind |-> kind, text |-> text]

\* `${context.repo.repo}-${context.payload.pull_request.number}`
CommentKey == "auto-request-review-18"

\* the key of another pull request of the repository
OtherCommentKey == "auto-request-review-19"

\* getCommentFooter(): `Comment added by Auto Reviewer Robot: ${commentKey}`
getCommentFooter == Line("Comment added by Auto Reviewer Robot: ", CommentKey)

\* `- ${alias}\n` for each alias
Bullets(aliases) == [i \in DOMAIN aliases |-> Line("- ", aliases[i])]

\* get_missing_access_message(reviewers)
get_missing_access_message(revs) ==
  LET individuals == split_reviewers(revs)[1]
      teams == split_reviewers(revs)[2]
  IN << Line("The following reviewers did not have access to be added as reviewers, please review their access:", "") >>
     \o (IF Len(individuals) > 0
           THEN << Line("### *Individual Alias*", "") >> \o Bullets(individuals)
           ELSE <<>>)
     \o (IF Len(teams) > 0
           THEN << Line("### *Team Alias*", "") >> \o Bullets(teams)
           ELSE <<>>)
     \o << Line("", ""), getCommentFooter >>

\* `All reviewer issues have been resolved!\n${getCommentFooter()}`
AllResolvedMessage ==
  << Line("All reviewer issues have been resolved!", ""), getCommentFooter >>

\* a parameter the caller leaves out is undefined; split_reviewers(undefined)
\* is [ [], [] ], as for an empty array (lodash partition)
LeftOut == <<>>

\* const message = get_missing_access_message();
MessageToPost(revs) == get_missing_access_message(LeftOut)

\* the `comment` arguments drawn: undefined, an object without id and body
\* (another schema), a comment with an id and no body, and comments of the
\* action with an id and one of the bodies the action writes
NoCommentArgument == [present |-> FALSE, id |-> 0, has_body |-> FALSE, body |-> <<>>]
MalformedComment == [present |-> TRUE, id |-> 0, has_body |-> FALSE, body |-> <<>>]
CommentArguments ==
  {NoCommentArgument, MalformedComment,
   [present |-> TRUE, id |-> 123, has_body |-> FALSE, body |-> <<>>]}
  \cup {[present |-> TRUE, id |-> 123, has_body |-> TRUE, body |-> body] :
          body \in {get_missing_access_message(revs) : revs \in ReviewerArguments}
                   \cup {AllResolvedMessage}}

\* mutant: any comment object is taken for a comment of the action
HasId_AnyComment(comment) == comment.present

\* comment?.id
HasId(comment) == comment.present /\ comment.id # 0

\* message.localeCompare(comment?.body): not 0
DiffersFromBody(message, comment) == ~comment.has_body \/ message # comment.body

NoRequest == [api |-> "", comment_id |-> 0, body |-> <<>>]

\* what post_notification asks of octokit.issues, from its arguments
post_notification(revs, comment) ==
  IF Len(revs) > 0
    THEN IF HasId(comment)
           THEN IF DiffersFromBody(MessageToPost(revs), comment)
                  THEN [api |-> "issues.updateComment", comment_id |-> comment.id,
                        body |-> MessageToPost(revs)]
                  ELSE NoRequest
           ELSE [api |-> "issues.createComment", comment_id |-> 0,
                 body |-> MessageToPost(revs)]
  ELSE IF HasId(comment)
    THEN [api |-> "issues.updateComment", comment_id |-> comment.id,
          body |-> AllResolvedMessage]
  ELSE NoRequest

InitNotification ==
  /\ RunNotStarted
  /\ ProcessNotStarted
  /\ fn_pc = "entered"
  /\ requests = <<>>
  /\ fn_result = <<>>
  /\ arg_reviewers \in ReviewerArguments
  /\ arg_comment \in CommentArguments
  /\ collaborator_responses = <<>>
  /\ settled_order = <<>>
  /\ timeline_nodes = <<>>
  /\ page = 0
  /\ pull_request_files = 0
  /\ files_collected = <<>>
  /\ comment_list = <<>>

notificationFrame == <<fn_result, arg_reviewers, arg_comment, collaborator_responses,
                       settled_order, timeline_nodes, page, pull_request_files,
                       files_collected, comment_list, runVars, processVars>>

\* the awaited request resolves, or rejects and post_notification rejects with it
Requested(request) ==
  /\ requests' = Append(requests, request)
  /\ \E resolved \in BOOLEAN : fn_pc' = IF resolved THEN "returned" ELSE "threw"

\* github.js:323-328
CreateComment ==
  /\ fn_pc = "entered"
  /\ post_notification(arg_reviewers, arg_comment).api = "issues.createComment"
  /\ Requested(post_notification(arg_reviewers, arg_comment))
  /\ UNCHANGED notificationFrame

\* github.js:309-320
UpdateComment ==
  /\ fn_pc = "entered"
  /\ Len(arg_reviewers) > 0
  /\ post_notification(arg_reviewers, arg_comment).api = "issues.updateComment"
  /\ Requested(post_notification(arg_reviewers, arg_comment))
  /\ UNCHANGED notificationFrame

\* github.js:329-338
UpdateResolved ==
  /\ fn_pc = "entered"
  /\ Len(arg_reviewers) = 0
  /\ post_notification(arg_reviewers, arg_comment).api = "issues.updateComment"
  /\ Requested(post_notification(arg_reviewers, arg_comment))
  /\ UNCHANGED notificationFrame

\* github.js:319 and the end of the function: nothing is requested
ReturnWithoutRequest ==
  /\ fn_pc = "entered"
  /\ post_notification(arg_reviewers, arg_comment) = NoRequest
  /\ fn_pc' = "returned"
  /\ UNCHANGED <<requests, notificationFrame>>

NextNotification ==
  \/ CreateComment
  \/ UpdateComment
  \/ UpdateResolved
  \/ ReturnWithoutRequest

SpecNotification == InitNotification /\ [][NextNotification]_vars

NotificationEnded == fn_pc \in {"returned", "threw"}

\* the aliases a body names: the texts of its bullet lines
AliasesNamed(body) ==
  {body[i].text : i \in {j \in DOMAIN body : body[j].kind = "- "}}

\* the names a list is reported under: teams without the team: prefix
NamesOf(revs) ==
  {IF StartsWithTeamPrefix(revs[i]) THEN WithoutTeamPrefix(revs[i]) ELSE revs[i] :
     i \in DOMAIN revs}

\* C15 as stated: with a non-empty missing list and no usable existing comment
\* (absent, or without an id), post_notification issues exactly one
\* createComment and no updateComment, and the created body is the
\* missing-access message for that list: it names every alias of the list
\* (team aliases without the team: prefix) and ends with the comment footer.
C15_AsStated ==
  (NotificationEnded /\ Len(arg_reviewers) > 0 /\ ~HasId(arg_comment)) =>
    /\ Len(requests) = 1
    /\ requests[1].api = "issues.createComment"
    /\ requests[1].body = get_missing_access_message(arg_reviewers)
    /\ NamesOf(arg_reviewers) \subseteq AliasesNamed(requests[1].body)
    /\ requests[1].body[Len(requests[1].body)] = getCommentFooter

\* C16 as stated: with a non-empty missing list and an existing comment that
\* has an id, post_notification never creates a comment; it issues exactly one
\* updateComment, whose body is the message for the current list, exactly when
\* the existing body differs from the message generated for the current list,
\* and makes no call when the body already equals that message.
C16_AsStated ==
  (NotificationEnded /\ Len(arg_reviewers) > 0 /\ HasId(arg_comment)) =>
    IF DiffersFromBody(get_missing_access_message(arg_reviewers), arg_comment)
      THEN /\ Len(requests) = 1
           /\ requests[1].api = "issues.updateComment"
           /\ requests[1].comment_id = arg_comment.id
           /\ requests[1].body = get_missing_access_message(arg_reviewers)
      ELSE requests = <<>>

\* C17: with an empty missing list, post_notification issues exactly one
\* updateComment with the all-resolved body (it holds the footer and names
\* none of the aliases listed before) and no createComment when the existing
\* comment has an id, and makes no call when the comment is absent or has no id.
C17_EmptyListResolvesOrStaysSilent ==
  (NotificationEnded /\ Len(arg_reviewers) = 0) =>
    IF arg_comment.present /\ arg_comment.id # 0
      THEN /\ Len(requests) = 1
           /\ requests[1].api = "issues.updateComment"
           /\ requests[1].comment_id = arg_comment.id
           /\ requests[1].body = AllResolvedMessage
           /\ Includes(requests[1].body, getCommentFooter)
           /\ AliasesNamed(requests[1].body) = {}
      ELSE requests = <<>>

\* a comment that listed two aliases is closed
C17_Witness ==
  /\ fn_pc = "returned"
  /\ arg_reviewers = <<>>
  /\ arg_comment.id = 123
  /\ arg_comment.has_body
  /\ AliasesNamed(arg_comment.body) = {"mario", "koopa"}
  /\ Len(requests) = 1

-----------------------------------------------------------------------------
(* github.js: fetch_reviewers *)

\* A timeline node: requestedReviewer.slug, requestedReviewer.login, state and
\* author.login, each <<>> when the property is missing or null.
TimelineNode(slug, login, state, author_login) ==
  [slug |-> slug, login |-> login, state |-> state, author_login |-> author_login]

ReviewStates == {"APPROVED", "CHANGES_REQUESTED", "COMMENTED"}

\* the nodes drawn: review requests of users and of teams, reviews in every
\* state, a review whose author is gone, and a node of no known shape
TimelineNodes ==
  {TimelineNode(<<>>, <<login>>, <<>>, <<>>) : login \in {"mario", "luigi"}}
  \cup {TimelineNode(<<slug>>, <<>>, <<>>, <<>>) : slug \in CheckedTeamSlugs}
  \cup {TimelineNode(<<>>, <<>>, <<state>>, <<login>>) :
          state \in ReviewStates, login \in {"mario", "peach"}}
  \cup {TimelineNode(<<>>, <<>>, <<"APPROVED">>, <<>>),
        TimelineNode(<<>>, <<>>, <<>>, <<>>)}

TimelineResponses ==
  UNION {[1..n -> TimelineNodes] : n \in 0..MaxTimelineNodes}

\* mutant: a review counts whatever its state
IsApproved_AnyState(node) == node.state # <<>>

\* timelineEvent?.state && timelineEvent.state === 'APPROVED'
IsApproved(node) == node.state = <<"APPROVED">>

\* what one pass of the forEach adds to the Set: nothing (<<>>) or one alias
AddedBy(node) ==
  IF node.slug # <<>> THEN <<WithTeamPrefix(node.slug[1])>>
  ELSE IF node.login # <<>> THEN node.login
  ELSE IF IsApproved(node) /\ node.author_login # <<>> THEN node.author_login
  ELSE <<>>

\* fetch_reviewers, from the nodes of the response: the Set, spread in
\* insertion order
RECURSIVE fetch_reviewers(_)
fetch_reviewers(nodes) ==
  IF nodes = <<>> THEN <<>>
  ELSE LET earlier == fetch_reviewers(SubSeq(nodes, 1, Len(nodes) - 1))
           added == AddedBy(nodes[Len(nodes)])
       IN IF added = <<>> \/ Includes(earlier, added[1])
            THEN earlier
            ELSE earlier \o added

InitFetchReviewers ==
  /\ RunNotStarted
  /\ ProcessNotStarted
  /\ fn_pc = "entered"
  /\ requests = <<>>
  /\ fn_result = <<>>
  /\ arg_reviewers = <<>>
  /\ arg_comment = NoComment
  /\ collaborator_responses = <<>>
  /\ settled_order = <<>>
  /\ timeline_nodes \in TimelineResponses
  /\ page = 0
  /\ pull_request_files = 0
  /\ files_collected = <<>>
  /\ comment_list = <<>>

fetchReviewersFrame == <<arg_reviewers, arg_comment, collaborator_responses,
                         settled_order, timeline_nodes, page, pull_request_files,
                         files_collected, comment_list, runVars, processVars>>

\* github.js:112-150: the paginated query resolves with the nodes or rejects
QueryTimeline ==
  /\ fn_pc = "entered"
  /\ requests' = Append(requests, [api |-> "graphql.paginate"])
  /\ \E resolved \in BOOLEAN : fn_pc' = IF resolved THEN "received" ELSE "threw"
  /\ UNCHANGED <<fn_result, fetchReviewersFrame>>

\* github.js:152-163
CollectReviewers ==
  /\ fn_pc = "received"
  /\ fn_result' = fetch_reviewers(timeline_nodes)
  /\ fn_pc' = "returned"
  /\ UNCHANGED <<requests, fetchReviewersFrame>>

NextFetchReviewers ==
  \/ QueryTimeline
  \/ CollectReviewers

SpecFetchReviewers == InitFetchReviewers /\ [][NextFetchReviewers]_vars

\* the alias a node stands for: the login of a requested user, team: and the
\* slug of a requested team, the login of the author of an APPROVED review;
\* <<>> for every other node
AliasOfNode(node) ==
  CASE node.slug # <<>> -> <<WithTeamPrefix(node.slug[1])>>
    [] node.slug = <<>> /\ node.login # <<>> -> node.login
    [] node.slug = <<>> /\ node.login = <<>> /\ node.state = <<"APPROVED">> ->
         node.author_login
    [] OTHER -> <<>>

\* the position of the first node that stands for the alias
FirstAppearance(alias) ==
  CHOOSE k \in DOMAIN timeline_nodes :
    /\ AliasOfNode(timeline_nodes[k]) = <<alias>>
    /\ \A j \in 1..(k - 1) : AliasOfNode(timeline_nodes[j]) # <<alias>>

\* C18: fetch_reviewers returns, without duplicates and in order of first
\* appearance, exactly the login of every requested user, team: followed by
\* the slug of every requested team, and the login of the author of every
\* review whose state is APPROVED; reviews in any other state and nodes of no
\* known shape add nothing.
C18_CurrentReviewersOfTimeline ==
  fn_pc = "returned" =>
    /\ NoDuplicates(fn_result)
    /\ SeqToSet(fn_result) =
         {AliasOfNode(timeline_nodes[k])[1] :
            k \in {j \in DOMAIN timeline_nodes : AliasOfNode(timeline_nodes[j]) # <<>>}}
    /\ \A i, j \in DOMAIN fn_result :
         i < j => FirstAppearance(fn_result[i]) < FirstAppearance(fn_result[j])

\* a requested team, a requested user and an approval of the same user: the
\* user is listed once, after the team
C18_Witness ==
  /\ fn_pc = "returned"
  /\ timeline_nodes =
       << TimelineNode(<<"toads">>, <<>>, <<>>, <<>>),
          TimelineNode(<<>>, <<"mario">>, <<>>, <<>>),
          TimelineNode(<<>>, <<>>, <<"APPROVED">>, <<"mario">>) >>
  /\ fn_result = <<"team:toads", "mario">>

-----------------------------------------------------------------------------
(* github.js: fetch_changed_files *)

\* const per_page = 100;
per_page == 100

\* The files of the pull request are numbered 1..pull_request_files in the
\* order the API lists them; file i has the name `path/to/file${i}`, held as i.
\* pulls.listFiles({ page, per_page }): the filenames of one page
ListFiles(number_of_files, page_number, page_size) ==
  LET before == (page_number - 1) * page_size
      here == IF number_of_files - before >= page_size THEN page_size
              ELSE IF number_of_files > before THEN number_of_files - before
              ELSE 0
  IN [i \in 1..here |-> before + i]

\* mutant: the loop goes on until a page comes back empty
AnotherPage_UntilEmpty(number_of_files_in_current_page) ==
  number_of_files_in_current_page > 0

\* while (number_of_files_in_current_page === per_page)
AnotherPage(number_of_files_in_current_page) ==
  number_of_files_in_current_page = per_page

InitChangedFiles ==
  /\ RunNotStarted
  /\ ProcessNotStarted
  /\ fn_pc = "paging"
  /\ requests = <<>>
  /\ fn_result = <<>>
  /\ arg_reviewers = <<>>
  /\ arg_comment = NoComment
  /\ collaborator_responses = <<>>
  /\ settled_order = <<>>
  /\ timeline_nodes = <<>>
  /\ page = 0
  /\ pull_request_files \in 0..MaxPullRequestFiles
  /\ files_collected = <<>>
  /\ comment_list = <<>>

changedFilesFrame == <<arg_reviewers, arg_comment, collaborator_responses,
                       settled_order, timeline_nodes, pull_request_files,
                       comment_list, runVars, processVars>>

\* github.js:83-99: one pass of the do-while loop; the request resolves with the
\* page, or rejects and fetch_changed_files rejects with it
RequestPage ==
  /\ fn_pc = "paging"
  /\ page' = page + 1
  /\ requests' = Append(requests, [api |-> "pulls.listFiles", page |-> page + 1,
                                   per_page |-> per_page])
  /\ \/ LET response_body == ListFiles(pull_request_files, page + 1, per_page)
        IN /\ files_collected' = files_collected \o response_body
           /\ fn_pc' = IF AnotherPage(Len(response_body)) THEN "paging" ELSE "returning"
     \/ /\ fn_pc' = "threw"
        /\ UNCHANGED files_collected
  /\ UNCHANGED <<fn_result, changedFilesFrame>>

\* github.js:101
ReturnChangedFiles ==
  /\ fn_pc = "returning"
  /\ fn_result' = files_collected
  /\ fn_pc' = "returned"
  /\ UNCHANGED <<requests, page, files_collected, changedFilesFrame>>

NextChangedFiles ==
  \/ RequestPage
  \/ ReturnChangedFiles

SpecChangedFiles == InitChangedFiles /\ [][NextChangedFiles]_vars

\* C19: fetch_changed_files requests pages 1, 2, 3, ... of 100 entries each,
\* stops after the first page that holds fewer than 100 entries and returns
\* the filenames of all the pages requested, in order; for a pull request
\* with n changed files it ends after floor(n / 100) + 1 requests and returns
\* all n filenames.
C19_PagesUntilAShortPage ==
  /\ \A k \in DOMAIN requests :
       requests[k] = [api |-> "pulls.listFiles", page |-> k, per_page |-> 100]
  /\ Len(requests) <= (pull_request_files \div 100) + 1
  /\ fn_pc \in {"returned", "threw"} \/ ENABLED NextChangedFiles
  /\ fn_pc = "returned" =>
       /\ Len(requests) = (pull_request_files \div 100) + 1
       /\ \A k \in 1..(Len(requests) - 1) :
            Len(ListFiles(pull_request_files, k, 100)) = 100
       /\ Len(ListFiles(pull_request_files, Len(requests), 100)) < 100
       /\ fn_result = [i \in 1..pull_request_files |-> i]

\* 200 files: two full pages and a third, empty one
C19_Witness ==
  /\ fn_pc = "returned"
  /\ pull_request_files = 200
  /\ Len(requests) = 3
  /\ Len(fn_result) = 200

-----------------------------------------------------------------------------
(* github.js: get_existing_comment *)

ListedComment(id, has_body, body) == [id |-> id, has_body |-> has_body, body |-> body]

\* the comments drawn: two comments of people, two comments that hold the
\* footer of this pull request, a message of the action, a comment that holds
\* the footer of another pull request, and a comment without a body
ListedComments ==
  {ListedComment(1, TRUE, <<Line("Thank you for making this change Mario.", "")>>),
   ListedComment(2, TRUE, <<Line("Missing Reviewers ", ""), getCommentFooter>>),
   ListedComment(3, TRUE, <<Line("Second Comment ", ""), getCommentFooter>>),
   ListedComment(4, TRUE, get_missing_access_message(<<"mario">>)),
   ListedComment(5, TRUE, <<Line("Missing Reviewers ", ""),
                            Line("Comment added by Auto Reviewer Robot: ", OtherCommentKey)>>),
   ListedComment(6, FALSE, <<>>)}

CommentListings == UNION {[1..n -> ListedComments] : n \in 0..MaxComments}

\* mutant: only a body that is the footer and nothing else matches
IncludesFooter_OnlyFooter(comment) ==
  comment.has_body /\ comment.body = <<getCommentFooter>>

\* (comment.body ?? '').includes(robotFooter)
IncludesFooter(comment) ==
  Includes(IF comment.has_body THEN comment.body ELSE <<>>, getCommentFooter)

\* mutant: the last comment of the action is returned
Shift_Last(comments) ==
  IF comments = <<>> THEN <<>> ELSE <<comments[Len(comments)]>>

\* robotComments.shift(): <<>> is undefined
Shift(comments) == IF comments = <<>> THEN <<>> ELSE <<Head(comments)>>

\* get_existing_comment, from the comments listed
get_existing_comment(comments) == Shift(SelectSeq(comments, IncludesFooter))

InitExistingComment ==
  /\ RunNotStarted
  /\ ProcessNotStarted
  /\ fn_pc = "entered"
  /\ requests = <<>>
  /\ fn_result = <<>>
  /\ arg_reviewers = <<>>
  /\ arg_comment = NoComment
  /\ collaborator_responses = <<>>
  /\ settled_order = <<>>
  /\ timeline_nodes = <<>>
  /\ page = 0
  /\ pull_request_files = 0
  /\ files_collected = <<>>
  /\ comment_list \in CommentListings

existingCommentFrame == <<arg_reviewers, arg_comment, collaborator_responses,
                          settled_order, timeline_nodes, page, pull_request_files,
                          files_collected, comment_list, runVars, processVars>>

\* github.js:254-258: the listing is requested; it resolves or rejects
ListComments ==
  /\ fn_pc = "entered"
  /\ requests' = Append(requests, [api |-> "issues.listComments"])
  /\ \E resolved \in BOOLEAN : fn_pc' = IF resolved THEN "received" ELSE "threw"
  /\ UNCHANGED <<fn_result, existingCommentFrame>>

\* github.js:260-271
ReturnRobotComment ==
  /\ fn_pc = "received"
  /\ fn_result' = get_existing_comment(comment_list)
  /\ fn_pc' = "returned"
  /\ UNCHANGED <<requests, existingCommentFrame>>

NextExistingComment ==
  \/ ListComments
  \/ ReturnRobotComment

SpecExistingComment == InitExistingComment /\ [][NextExistingComment]_vars

\* the comment at position k has a body and the body holds this pull
\* request's footer
HoldsFooter(k) ==
  /\ comment_list[k].has_body
  /\ \E i \in DOMAIN comment_list[k].body : comment_list[k].body[i] = getCommentFooter

\* C20: get_existing_comment issues exactly one list-comments call and returns
\* the first comment, in listing order, whose body contains this pull
\* request's footer; it returns undefined when the listing is empty or no
\* body contains the footer, and a comment without a body never matches.
C20_FirstCommentWithFooter ==
  /\ Len(requests) <= 1
  /\ fn_pc = "returned" =>
       /\ requests = <<[api |-> "issues.listComments"]>>
       /\ IF \E k \in DOMAIN comment_list : HoldsFooter(k)
            THEN LET first == CHOOSE k \in DOMAIN comment_list :
                                /\ HoldsFooter(k)
                                /\ \A j \in 1..(k - 1) : ~HoldsFooter(j)
                 IN fn_result = <<comment_list[first]>>
            ELSE fn_result = <<>>
       /\ fn_result # <<>> => fn_result[1].has_body

\* a comment without a body and two comments with the footer: the earlier of
\* the two is returned
C20_Witness ==
  /\ fn_pc = "returned"
  /\ Len(comment_list) = 3
  /\ comment_list[1].id = 6
  /\ comment_list[2].id = 3
  /\ comment_list[3].id = 2
  /\ fn_result = <<comment_list[2]>>

-----------------------------------------------------------------------------
(* The process: run() invoked again, module-level state kept *)

\* clear_cache() of github.js
clear_cache(cache) ==
  [cache EXCEPT !.context_cache = <<>>,
                !.token_cache = <<>>,
                !.config_path_cache = <<>>,
                !.octokit_cache = <<>>]

\* run() has ended and is invoked again in the same process, after the
\* resets the modules offer: github.clear_cache(); index.js exports run only,
\* so nothing touches validate_all_reviewers_cache. The locals of run() start
\* afresh and the call log starts over.
StartNextRun ==
  /\ pc = "done"
  /\ pc' = "fetch_config"
  /\ outcome' = "running"
  /\ thrown' = NoError
  /\ raised' = NoError
  /\ calls' = <<>>
  /\ config' = NoConfig
  /\ title' = <<>>
  /\ is_draft' = FALSE
  /\ author' = ""
  /\ changed_files' = <<>>
  /\ requested_approved_reviewers' = <<>>
  /\ reviewers_based_on_files' = <<>>
  /\ reviewers_based_on_author' = <<>>
  /\ reviewers_from_same_teams' = <<>>
  /\ default_reviewers' = <<>>
  /\ reviewers' = <<>>
  /\ aliases_missing_access' = <<>>
  /\ all_reviewers' = <<>>
  /\ existing_comment' = NoComment
  /\ validate_all_input' = <<>>
  /\ github_cache' = clear_cache(github_cache)
  /\ UNCHANGED <<validate_all_reviewers_cache, action_inputs, last_call, pr_history,
                 githubVars>>

NextInProcess ==
  \/ Next
  \/ StartNextRun

SpecProcess == Init /\ [][NextInProcess]_vars

\* C21 as stated: the validate-all switch is read exactly once in every run
\* that reaches the access-validation step, also in a second or later run of
\* the same process, so each run acts on the value the switch has at that run.
C21_AsStated ==
  validate_all_input # <<>> =>
    /\ validate_all_input[1].read
    /\ validate_all_input[1].used = validate_all_input[1].current

-----------------------------------------------------------------------------
(* github.js: the module-level caches *)

\* cached || (cached = value), cached ?? (cached = value): what the getter returns
CachedOr(cached, value) == IF cached # <<>> THEN cached[1] ELSE value

\* core.getInput('use_local') === 'true'
UseLocalOf(inputs) == inputs.use_local = "true"

\* new octokitWithPlugin(getOctokitOptions(token)): a client is told by its token
OctokitFor(token) == [client_of |-> token]

\* what a getter returns when it reads its input now
ReadNow(fn) ==
  CASE fn = "get_context" -> action_inputs.context
    [] fn = "get_token" -> action_inputs.token
    [] fn = "get_config_path" -> action_inputs.config
    [] fn = "get_use_local" -> UseLocalOf(action_inputs)
    [] fn = "get_octokit" -> OctokitFor(action_inputs.token)

\* a getter was called: what it returned, what its input held at that
\* moment, and whether it is the first function called since clear_cache()
Returned(fn, ret) ==
  last_call' = [fn |-> fn, ret |-> <<ret>>, input |-> <<ReadNow(fn)>>,
                after_clear |-> last_call.fn = "clear_cache"]

InitCaches ==
  /\ RunNotStarted
  /\ GithubNotCalled
  /\ validate_all_input = <<>>
  /\ github_cache = NothingCached
  /\ action_inputs \in ActionInputs
  /\ last_call = [fn |-> "", ret |-> <<>>, input |-> <<>>, after_clear |-> FALSE]
  /\ pr_history = <<>>

cachesFrame == <<runVars, githubVars, validate_all_input, pr_history>>

\* github.js:349-351
GetContext ==
  /\ github_cache' =
       [github_cache EXCEPT !.context_cache =
          <<CachedOr(github_cache.context_cache, action_inputs.context)>>]
  /\ Returned("get_context", CachedOr(github_cache.context_cache, action_inputs.context))
  /\ UNCHANGED <<action_inputs, cachesFrame>>

\* github.js:353-355
GetToken ==
  /\ github_cache' =
       [github_cache EXCEPT !.token_cache =
          <<CachedOr(github_cache.token_cache, action_inputs.token)>>]
  /\ Returned("get_token", CachedOr(github_cache.token_cache, action_inputs.token))
  /\ UNCHANGED <<action_inputs, cachesFrame>>

\* github.js:357-359
GetConfigPath ==
  /\ github_cache' =
       [github_cache EXCEPT !.config_path_cache =
          <<CachedOr(github_cache.config_path_cache, action_inputs.config)>>]
  /\ Returned("get_config_path",
              CachedOr(github_cache.config_path_cache, action_inputs.config))
  /\ UNCHANGED <<action_inputs, cachesFrame>>

\* github.js:361-363
GetUseLocal ==
  /\ github_cache' =
       [github_cache EXCEPT !.use_local_cache =
          <<CachedOr(github_cache.use_local_cache, UseLocalOf(action_inputs))>>]
  /\ Returned("get_use_local",
              CachedOr(github_cache.use_local_cache, UseLocalOf(action_inputs)))
  /\ UNCHANGED <<action_inputs, cachesFrame>>

\* github.js:365-375: the token is taken through get_token()
GetOctokit ==
  /\ LET token == CachedOr(github_cache.token_cache, action_inputs.token)
         client == CachedOr(github_cache.octokit_cache, OctokitFor(token))
     IN /\ github_cache' =
             IF github_cache.octokit_cache # <<>> THEN github_cache
             ELSE [github_cache EXCEPT !.token_cache = <<token>>,
                                       !.octokit_cache = <<client>>]
        /\ Returned("get_octokit", client)
  /\ UNCHANGED <<action_inputs, cachesFrame>>

\* github.js:377-382
ClearCache ==
  /\ github_cache' = clear_cache(github_cache)
  /\ last_call' = [fn |-> "clear_cache", ret |-> <<>>, input |-> <<>>,
                   after_clear |-> FALSE]
  /\ UNCHANGED <<action_inputs, cachesFrame>>

\* between two runs the event, the workflow or a test gives other inputs
ChangeInputs ==
  /\ \E inputs \in ActionInputs \ {action_inputs} : action_inputs' = inputs
  /\ UNCHANGED <<github_cache, last_call, cachesFrame>>

NextCaches ==
  \/ GetContext
  \/ GetToken
  \/ GetConfigPath
  \/ GetUseLocal
  \/ GetOctokit
  \/ ClearCache
  \/ ChangeInputs

SpecCaches == InitCaches /\ [][NextCaches]_vars

\* C22 as stated: after clear_cache() every module-level cached value
\* (context, token, config path, use-local switch, API client) is unset, so
\* the next use of each reads it from its input again; no value cached
\* earlier survives a reset.
C22_AsStated ==
  /\ last_call.fn = "clear_cache" => github_cache = NothingCached
  /\ (last_call.fn \notin {"", "clear_cache"} /\ last_call.after_clear) =>
       last_call.ret = last_call.input

-----------------------------------------------------------------------------
(* Properties of run(), continued *)

\* run() returned right after get_pull_request: the gate evaluator said false
StoppedAtTheGate ==
  /\ pc = "done"
  /\ outcome = "returned"
  /\ Len(calls) = 2
  /\ calls[2].fn = "get_pull_request"

\* some ignored keyword occurs in the title, letter for letter
KeywordInTitle ==
  \E i \in DOMAIN config.options.ignored_keywords :
    LET keyword == config.options.ignored_keywords[i]
    IN \E from \in 1..Len(title) :
         /\ from + Len(keyword) - 1 <= Len(title)
         /\ SubSeq(title, from, from + Len(keyword) - 1) = keyword

\* C23: should_request_review returns false exactly when options.ignore_draft
\* is true and the pull request is a draft, or some entry of
\* options.ignored_keywords is a case-sensitive literal substring of the
\* title, and true in every other case; a draft with ignore_draft false or
\* unset is not suppressed.
C23_GateIsExact ==
  Called("get_pull_request") =>
    /\ StoppedAtTheGate <=> ((config.options.ignore_draft /\ is_draft) \/ KeywordInTitle)
    /\ should_request_review(title, is_draft, config) <=> ~StoppedAtTheGate

\* a draft whose title holds the keyword in lower case only goes on, with
\* ignore_draft false and the keyword configured
C23_Witness ==
  /\ Called("fetch_changed_files")
  /\ is_draft
  /\ ~config.options.ignore_draft
  /\ config.options.ignored_keywords = << <<"W", "I", "P">> >>
  /\ title = <<"w", "i", "p">>

\* the aliases, group names left out, that a list of references reaches
AliasesReachedFrom(refs, cfg) ==
  {r \in ReachableReferences(SeqToSet(refs), cfg.reviewers.groups) :
     ~HasKey(cfg.reviewers.groups, r)}

\* the per_author entries keyed by a group the author is a member of
GroupKeyedEntriesOfAuthor ==
  {i \in DOMAIN config.reviewers.per_author :
     /\ HasKey(config.reviewers.groups, config.reviewers.per_author[i][1])
     /\ author \in ReachableReferences({config.reviewers.per_author[i][1]},
                                       config.reviewers.groups)}

\* C24: a per_author entry keyed by a group applies to an author who is a
\* member of that group: every alias its targets reach through the groups,
\* the author left out, is in the author-based result and, unless it is a
\* current reviewer, among the aliases passed to the first access check; the
\* author is never among the aliases passed to that check.
C24_GroupKeyedEntryAppliesToMembers ==
  Called("filter_only_collaborators") =>
    LET checked == FirstCall("filter_only_collaborators").arg
    IN /\ \A i \in GroupKeyedEntriesOfAuthor :
            \A a \in AliasesReachedFrom(config.reviewers.per_author[i][2], config)
                       \ {author} :
              /\ Includes(reviewers_based_on_author, a)
              /\ ~Includes(requested_approved_reviewers, a) => Includes(checked, a)
       /\ ~Includes(reviewers_based_on_author, author)
       /\ ~Includes(checked, author)

\* per_author {bros: [bros, team:koopa]}, bros = [mario, luigi], author luigi:
\* mario and team:koopa are checked, luigi is not
C24_Witness ==
  /\ author = "luigi"
  /\ config.reviewers.per_author = << <<"bros", <<"bros", "team:koopa">> >> >>
  /\ Get(config.reviewers.groups, "bros") = <<"mario", "luigi">>
  /\ requested_approved_reviewers = <<>>
  /\ reviewers_based_on_author = <<"mario", "team:koopa">>
  /\ Called("filter_only_collaborators")
  /\ {"mario", "team:koopa"} \subseteq SeqToSet(FirstCall("filter_only_collaborators").arg)
  /\ ~Includes(FirstCall("filter_only_collaborators").arg, "luigi")

\* the direct members of the groups that list the author as a direct member
TeamMatesOfAuthor ==
  UNION {SeqToSet(config.reviewers.groups[i][2]) :
           i \in {j \in DOMAIN config.reviewers.groups :
                    Includes(config.reviewers.groups[j][2], author)}}
  \ {author}

\* C25: with enable_group_assignment on, the group-member result is exactly the
\* other direct members of the groups that directly contain the author, and
\* each of them that is not a current reviewer is passed to the first access
\* check; with the option off or unset the group-member result is empty.
\* The author is never in it.
C25_GroupAssignmentAddsTeamMates ==
  Called("filter_only_collaborators") =>
    LET checked == FirstCall("filter_only_collaborators").arg
    IN /\ config.options.enable_group_assignment =>
            /\ SeqToSet(reviewers_from_same_teams) = TeamMatesOfAuthor
            /\ \A a \in TeamMatesOfAuthor :
                 ~Includes(requested_approved_reviewers, a) => Includes(checked, a)
       /\ ~config.options.enable_group_assignment => reviewers_from_same_teams = <<>>
       /\ ~Includes(reviewers_from_same_teams, author)

\* enable_group_assignment on, alike = [peach, bros], author peach: bros, a
\* direct member of alike, is checked as it stands; luigi and mario, members
\* of bros only, come from the per_author entry and not from the group rule
C25_Witness ==
  /\ config.options.enable_group_assignment
  /\ author = "peach"
  /\ HasKey(config.reviewers.groups, "alike")
  /\ reviewers_from_same_teams = <<"bros">>
  /\ requested_approved_reviewers = <<>>
  /\ Called("filter_only_collaborators")
  /\ Includes(FirstCall("filter_only_collaborators").arg, "bros")

\* every reference of the fetched configuration: the group names and whatever
\* the defaults, the groups, the file rules and the per_author entries mention
ReferencesOfConfig ==
  {config.reviewers.groups[i][1] : i \in DOMAIN config.reviewers.groups}
  \cup SeqToSet(config.reviewers.defaults)
  \cup UNION {SeqToSet(config.reviewers.groups[i][2]) : i \in DOMAIN config.reviewers.groups}
  \cup UNION {SeqToSet(config.files[i][2]) : i \in DOMAIN config.files}
  \cup UNION {SeqToSet(config.reviewers.per_author[i][2]) :
                i \in DOMAIN config.reviewers.per_author}

\* C26: expanding a reference of the configuration, a group that contains
\* itself directly or through other groups included, yields the aliases that
\* are not group names and that the group reaches; a reference that is not a
\* group name expands to itself alone. The default reviewers of a run in
\* which no rule matched are the expansion of the configured defaults, the
\* author left out.
C26_ExpansionIsTheReachableAliases ==
  /\ \A r \in ReferencesOfConfig :
       LET expansion == replace_groups_with_individuals(<<r>>, config)
       IN /\ SeqToSet(expansion) = AliasesReachedFrom(<<r>>, config)
          /\ ~HasKey(config.reviewers.groups, r) => expansion = <<r>>
  /\ (Identified /\ Uniq(reviewers_based_on_files \o reviewers_based_on_author
                             \o reviewers_from_same_teams) = <<>>) =>
       SeqToSet(default_reviewers) =
         AliasesReachedFrom(config.reviewers.defaults, config) \ {author}

\* bros = [mario, luigi, alike], alike = [peach, bros], defaults [peach, bros],
\* author luigi: bros expands to mario, luigi, peach
C26_Witness ==
  /\ Identified
  /\ Get(config.reviewers.groups, "bros") = <<"mario", "luigi", "alike">>
  /\ Get(config.reviewers.groups, "alike") = <<"peach", "bros">>
  /\ replace_groups_with_individuals(<<"bros">>, config) = <<"mario", "luigi", "peach">>
  /\ config.reviewers.defaults = <<"peach", "bros">>
  /\ author = "luigi"
  /\ default_reviewers = <<"peach", "mario">>

\* the rules matched a non-empty set, every member of which fetch_reviewers
\* returned as already requested or approved
MatchedOnlyCurrentReviewers ==
  LET matched == Uniq(reviewers_based_on_files \o reviewers_based_on_author
                        \o reviewers_from_same_teams)
  IN /\ Identified
     /\ matched # <<>>
     /\ \A a \in SeqToSet(matched) : Includes(requested_approved_reviewers, a)

\* the run is over and no collaborator call of it failed
CompletedWithoutFailure ==
  /\ pc = "done"
  /\ \A i \in DOMAIN calls : ~calls[i].failed

\* C27 as stated: when the rules match a non-empty set whose members are all
\* already requested or approved, the defaults are not used, the access check
\* is called once with an empty list, assign_reviewers is not called and
\* get_existing_comment is called once.
C27_AsStated ==
  (MatchedOnlyCurrentReviewers /\ CompletedWithoutFailure) =>
    /\ default_reviewers = <<>>
    /\ Len(CallsOf("filter_only_collaborators")) = 1
    /\ FirstCall("filter_only_collaborators").arg = <<>>
    /\ ~Called("assign_reviewers")
    /\ Len(CallsOf("get_existing_comment")) = 1

\* C27, amended: when the rules match a non-empty set whose members are all
\* already requested or approved, the defaults are not used, the first access
\* check is called with an empty list and assign_reviewers is not called; in
\* a run no call of which fails, get_existing_comment is called once, and
\* the access check is called once without validate-all and twice with it.
C27_FallbackDecidedBeforeCurrentRemoved ==
  MatchedOnlyCurrentReviewers =>
    /\ default_reviewers = <<>>
    /\ Called("filter_only_collaborators") =>
         FirstCall("filter_only_collaborators").arg = <<>>
    /\ ~Called("assign_reviewers")
    /\ CompletedWithoutFailure =>
         /\ Len(CallsOf("get_existing_comment")) = 1
         /\ Len(CallsOf("filter_only_collaborators")) =
              (IF validate_all_reviewers_cache = <<TRUE>> THEN 2 ELSE 1)

\* per_author {bros: [bros, team:koopa]}, author luigi, no file rule matched,
\* team:koopa and mario already requested, defaults configured, no validate-all
C27_Witness ==
  /\ MatchedOnlyCurrentReviewers
  /\ CompletedWithoutFailure
  /\ author = "luigi"
  /\ reviewers_based_on_author = <<"mario", "team:koopa">>
  /\ requested_approved_reviewers = <<"team:koopa", "mario">>
  /\ config.reviewers.defaults = <<"peach", "bros">>
  /\ validate_all_reviewers_cache = <<FALSE>>
  /\ Len(CallsOf("filter_only_collaborators")) = 1
  /\ FirstCall("filter_only_collaborators").arg = <<>>
  /\ Called("get_existing_comment")

-----------------------------------------------------------------------------
(* Runs on one pull request: index.js:116-122 with get_existing_comment and
   post_notification of github.js, run after run on the same comment list *)

MaxRuns == 3

\* the missing-access reports drawn: empty, or one alias
Reports == {revs \in ReviewerArguments : Len(revs) <= 1}

\* a comment someone writes on the pull request
CommentOfSomeone(id) ==
  ListedComment(id, TRUE, <<Line("Thank you for making this change Mario.", "")>>)

\* what get_existing_comment returned, as the `comment` argument of
\* post_notification: undefined, or the listed comment
AsArgument(found) ==
  IF found = <<>> THEN NoCommentArgument
  ELSE [present |-> TRUE, id |-> found[1].id,
        has_body |-> found[1].has_body, body |-> found[1].body]

\* the comment list after GitHub served a request of post_notification
Served(comments, request) ==
  IF request.api = "issues.createComment"
    THEN Append(comments, ListedComment(Len(comments) + 1, TRUE, request.body))
    ELSE [k \in DOMAIN comments |->
            IF comments[k].id = request.comment_id
              THEN ListedComment(comments[k].id, TRUE, request.body)
              ELSE comments[k]]

\* the record of a run: its report, the comment it found, the comment
\* writes it issued and whether each was served
RunOnPullRequest(report, found, writes) ==
  [report |-> report, found |-> found, writes |-> writes]

InitPullRequest ==
  /\ RunNotStarted
  /\ ProcessNotStarted
  /\ fn_pc = "idle"
  /\ requests = <<>>
  /\ fn_result = <<>>
  /\ arg_reviewers = <<>>
  /\ arg_comment = NoCommentArgument
  /\ collaborator_responses = <<>>
  /\ settled_order = <<>>
  /\ timeline_nodes = <<>>
  /\ page = 0
  /\ pull_request_files = 0
  /\ files_collected = <<>>
  /\ comment_list = <<>>

pullRequestFrame == <<requests, fn_result, collaborator_responses, settled_order,
                      timeline_nodes, page, pull_request_files, files_collected,
                      runVars, cacheVars, validate_all_input>>

\* index.js:118: a run arrives with its report and get_existing_comment
\* returns the first comment of the listing that holds the footer
FindExistingComment ==
  /\ fn_pc = "idle"
  /\ Len(pr_history) < MaxRuns
  /\ \E report \in Reports :
       /\ arg_reviewers' = report
       /\ arg_comment' = AsArgument(get_existing_comment(comment_list))
       /\ pr_history' = Append(pr_history,
                               RunOnPullRequest(report, arg_comment', <<>>))
  /\ fn_pc' = "notify"
  /\ UNCHANGED <<comment_list, pullRequestFrame>>

\* index.js:118: get_existing_comment rejects and the run ends
FindingFails ==
  /\ fn_pc = "idle"
  /\ Len(pr_history) < MaxRuns
  /\ \E report \in Reports :
       pr_history' = Append(pr_history,
                            RunOnPullRequest(report, NoCommentArgument, <<>>))
  /\ UNCHANGED <<fn_pc, arg_reviewers, arg_comment, comment_list, pullRequestFrame>>

\* index.js:119: neither a report nor a comment, post_notification is not called
SkipNotification ==
  /\ fn_pc = "notify"
  /\ ~ShouldNotify(arg_reviewers, arg_comment)
  /\ fn_pc' = "idle"
  /\ UNCHANGED <<arg_reviewers, arg_comment, comment_list, pr_history, pullRequestFrame>>

\* the one request of this post_notification is issued; GitHub serves it or
\* the request rejects
Written(request) ==
  \E served \in BOOLEAN :
    /\ pr_history' =
         [pr_history EXCEPT ![Len(pr_history)].writes =
            Append(@, [request |-> request, served |-> served])]
    /\ comment_list' = IF served THEN Served(comment_list, request) ELSE comment_list

\* index.js:121 and github.js:323-328
NotifyByNewComment ==
  /\ fn_pc = "notify"
  /\ ShouldNotify(arg_reviewers, arg_comment)
  /\ post_notification(arg_reviewers, arg_comment).api = "issues.createComment"
  /\ Len(comment_list) < MaxComments
  /\ Written(post_notification(arg_reviewers, arg_comment))
  /\ fn_pc' = "idle"
  /\ UNCHANGED <<arg_reviewers, arg_comment, pullRequestFrame>>

\* index.js:121 and github.js:309-320, 329-338
NotifyByUpdate ==
  /\ fn_pc = "notify"
  /\ ShouldNotify(arg_reviewers, arg_comment)
  /\ post_notification(arg_reviewers, arg_comment).api = "issues.updateComment"
  /\ Written(post_notification(arg_reviewers, arg_comment))
  /\ fn_pc' = "idle"
  /\ UNCHANGED <<arg_reviewers, arg_comment, pullRequestFrame>>

\* index.js:121 and github.js:319: the comment already holds the message
NotifyWithoutRequest ==
  /\ fn_pc = "notify"
  /\ ShouldNotify(arg_reviewers, arg_comment)
  /\ post_notification(arg_reviewers, arg_comment) = NoRequest
  /\ fn_pc' = "idle"
  /\ UNCHANGED <<arg_reviewers, arg_comment, comment_list, pr_history, pullRequestFrame>>

\* between two runs someone comments on the pull request
SomeoneComments ==
  /\ fn_pc = "idle"
  /\ Len(comment_list) < MaxComments
  /\ comment_list' = Append(comment_list, CommentOfSomeone(Len(comment_list) + 1))
  /\ UNCHANGED <<fn_pc, arg_reviewers, arg_comment, pr_history, pullRequestFrame>>

NextPullRequest ==
  \/ FindExistingComment
  \/ FindingFails
  \/ SkipNotification
  \/ NotifyByNewComment
  \/ NotifyByUpdate
  \/ NotifyWithoutRequest
  \/ SomeoneComments

SpecPullRequest == InitPullRequest /\ [][NextPullRequest]_vars

\* the runs that issued a createComment, and those whose createComment was served
RunsThatCreate ==
  {i \in DOMAIN pr_history :
     \E w \in DOMAIN pr_history[i].writes :
       pr_history[i].writes[w].request.api = "issues.createComment"}

RunsThatCreated ==
  {i \in DOMAIN pr_history :
     \E w \in DOMAIN pr_history[i].writes :
       /\ pr_history[i].writes[w].request.api = "issues.createComment"
       /\ pr_history[i].writes[w].served}

\* C28: over the runs on one pull request, each of which lists all comments,
\* the action creates at most one comment: createComment is issued only in
\* a run that found no comment holding the footer, no run after one whose
\* createComment was served issues another, every post_notification issues
\* at most one comment write, and at most one comment of the pull request
\* holds the footer.
C28_NoSecondNotificationComment ==
  /\ \A i \in DOMAIN pr_history : Len(pr_history[i].writes) <= 1
  /\ \A i \in RunsThatCreate : ~pr_history[i].found.present
  /\ \A i \in RunsThatCreated : \A j \in RunsThatCreate : j <= i
  /\ Cardinality({k \in DOMAIN comment_list : HoldsFooter(k)}) <= 1

\* someone commented first; the first run reported an alias and created the
\* comment; the second run reported an alias again, found that comment and
\* wrote nothing; the third had nothing to report and updated the comment
C28_Witness ==
  /\ Len(pr_history) = 3
  /\ Len(comment_list) = 2
  /\ ~HoldsFooter(1)
  /\ HoldsFooter(2)
  /\ RunsThatCreated = {1}
  /\ Len(pr_history[2].report) > 0
  /\ pr_history[2].found.present
  /\ pr_history[2].found.id = comment_list[2].id
  /\ pr_history[2].writes = <<>>
  /\ pr_history[3].report = <<>>
  /\ Len(pr_history[3].writes) = 1
  /\ pr_history[3].writes[1].request.api = "issues.updateComment"
  /\ pr_history[3].writes[1].served
  /\ comment_list[2].body = AllResolvedMessage

-----------------------------------------------------------------------------
(* Properties of run(): aliases checked and reported, order of the calls *)

\* the first access check returned a partition of its input
FirstCheckPartitionsItsInput ==
  LET first == FirstCall("filter_only_collaborators")
  IN /\ ~first.failed
     /\ NoDuplicates(first.ret[1] \o first.ret[2])
     /\ SeqToSet(first.ret[1] \o first.ret[2]) = SeqToSet(first.arg)

\* C29: in a run whose first access check returns a partition of its input,
\* each access check is given a list without duplicates, no alias is given
\* to both access checks, and the missing-access report, as kept by run()
\* and as passed to post_notification, names no alias twice; with
\* validate-all and without.
C29_NoAliasCheckedOrReportedTwice ==
  (Called("filter_only_collaborators") /\ FirstCheckPartitionsItsInput) =>
    LET checks == CallsOf("filter_only_collaborators")
    IN /\ \A i \in DOMAIN checks : NoDuplicates(checks[i].arg)
       /\ Len(checks) <= 2
       /\ Len(checks) = 2 =>
            SeqToSet(checks[1].arg) \cap SeqToSet(checks[2].arg) = {}
       /\ NoDuplicates(aliases_missing_access)
       /\ \A i \in DOMAIN calls :
            calls[i].fn = "post_notification" => NoDuplicates(calls[i].arg)

\* a validate-all run: both access checks were given aliases, each found
\* some without access and validated others, and the report was posted
C29_Witness ==
  /\ validate_all_reviewers_cache = <<TRUE>>
  /\ Len(CallsOf("filter_only_collaborators")) = 2
  /\ FirstCheckPartitionsItsInput
  /\ FirstCall("filter_only_collaborators").ret[1] # <<>>
  /\ FirstCall("filter_only_collaborators").ret[2] # <<>>
  /\ CallsOf("filter_only_collaborators")[2].ret[2] # <<>>
  /\ Called("post_notification")
  /\ Len(FirstCall("post_notification").arg) >= 2

\* the place of a collaborator in index.js:85-122; 0 for the calls before
PlaceInRun(fn) ==
  CASE fn = "filter_only_collaborators" -> 1
    [] fn = "assign_reviewers" -> 2
    [] fn = "get_existing_comment" -> 3
    [] fn = "post_notification" -> 4
    [] OTHER -> 0

\* C30: in the call log of a run the access checks come before
\* assign_reviewers, assign_reviewers before get_existing_comment and
\* get_existing_comment before post_notification, each of the last three at
\* most once; when assign_reviewers fails the run ends there, so neither
\* get_existing_comment nor post_notification is called and the report of
\* the run is not posted.
C30_CallsInFixedOrder ==
  /\ \A i, j \in DOMAIN calls :
       (i < j /\ PlaceInRun(calls[i].fn) > 0) =>
         /\ PlaceInRun(calls[i].fn) <= PlaceInRun(calls[j].fn)
         /\ PlaceInRun(calls[i].fn) = PlaceInRun(calls[j].fn) =>
              calls[i].fn = "filter_only_collaborators"
  /\ (Called("assign_reviewers") /\ FirstCall("assign_reviewers").failed) =>
       /\ pc = "done"
       /\ outcome = "threw"
       /\ calls[Len(calls)].fn = "assign_reviewers"
       /\ ~Called("get_existing_comment")
       /\ ~Called("post_notification")

\* the access check reported an alias without access, assign_reviewers
\* failed and the run ended with the report unposted
C30_Witness ==
  /\ Called("assign_reviewers")
  /\ FirstCall("assign_reviewers").failed
  /\ aliases_missing_access # <<>>
  /\ pc = "done"
  /\ ~Called("post_notification")

====
